---- MODULE Spec2Model ----
(***************************************************************************)
(* Model of the xynenyx agent service: the LangGraph workflow of one chat  *)
(* turn (app/graph/graph.py, app/graph/nodes.py, app/graph/edges.py), the  *)
(* initial state built by the chat endpoints (app/routers/chat.py) and the *)
(* intent classification boundary (app/services/llm_client.py).            *)
(*                                                                         *)
(* A Python dict with optional keys is a record plus the set "absent" of   *)
(* the keys that are missing; Python None is the value NoneVal.            *)
(***************************************************************************)
EXTENDS Integers, Sequences, FiniteSets, TLC

VARIABLES
    state,      \* the AgentState mapping threaded through the graph
    pc,         \* the node the executor runs next, "END", or "RAISED"
    last,       \* the node that completed last ("START" before the first)
    ran,        \* how many times each node has executed in this turn
    start,      \* the state the turn was started with
    call_failed, \* whether a call made by the node that completed last failed
    given,      \* the argument a service function is applied to
    returned,   \* what the service function returned for given
    again,      \* what it returned when applied once more
    table,      \* the rows of agent_checkpoints, oldest first
    latest_put, \* per key, the arguments of the last put since its last delete
    cache,      \* the query rewriter's cache: key -> list of variations
    rewrites    \* the rewrite_query calls of the concurrent turns

store_vars == <<table, latest_put>>
rewriter_vars == <<cache, rewrites>>
vars == <<state, pc, last, ran, start, call_failed, given, returned, again,
          store_vars, rewriter_vars>>

-----------------------------------------------------------------------------
(* Bounds of the model *)

MaxRuns == 3          \* cap on the executions of one node in one turn
MaxHistory == 2       \* stored messages loaded before the new user message
MaxSubQueries == 2    \* sub-queries a decomposition may return
MaxContextItems == 6  \* items of a context handed to the compressor
MaxCalls == 2         \* calls of the query rewriter

-----------------------------------------------------------------------------
(* Python values *)

NoneVal == "<None>"
EmptyDict == "{}"
TokenDict == "{prompt_tokens,completion_tokens,total_tokens}"
NonDict == "<non-dict>"

\* bool(v) for the optional text fields: None and "" are falsy
Truthy(v) == v # NoneVal /\ v # ""

\* str(v) as an f-string renders it
Str(v) == IF v = NoneVal THEN "None" ELSE v

\* e in s, for texts
Contains(s, e) ==
    \E i \in 1..(Len(s) - Len(e) + 1) : SubSeq(s, i, i + Len(e) - 1) = e

IsMapping(u) == u \in {EmptyDict, TokenDict}

\* state.get(key, default)
Get(s, key, default) == IF key \in s.absent THEN default ELSE s[key]

\* state[key] = value
Put(s, key, value) == [[s EXCEPT ![key] = value] EXCEPT !.absent = @ \ {key}]

\* the sequences over S of length at most n
RECURSIVE SeqsUpTo(_, _)
SeqsUpTo(S, n) ==
    IF n = 0 THEN {<<>>}
    ELSE LET shorter == SeqsUpTo(S, n - 1)
         IN  shorter \cup {Append(q, x) : q \in shorter, x \in S}

NoValidation == [kind |-> "None", corrections_needed |-> "absent", issues_ok |-> TRUE]
EmptyValidation == [kind |-> "dict", corrections_needed |-> "absent", issues_ok |-> TRUE]

\* bool(validation.get("corrections_needed"))
CorrectionsNeeded(v) == v.corrections_needed = "true"

-----------------------------------------------------------------------------
(* Messages *)

HumanMessage(text) == [role |-> "user", content |-> text]
AIMessage(text) == [role |-> "assistant", content |-> text]
SystemMessage(text) == [role |-> "system", content |-> text]

OfRole(msgs, role) == SelectSeq(msgs, LAMBDA m : m.role = role)
UserMessages(msgs) == OfRole(msgs, "user")
AssistantMessages(msgs) == OfRole(msgs, "assistant")

-----------------------------------------------------------------------------
(* Nodes and intents *)

Nodes == {"classify_intent", "retrieve_context", "execute_tools",
          "reasoning_step", "generate_response", "validate_response",
          "handle_error"}

valid_intents == {"research_query", "comparison", "trend_analysis",
                  "temporal_query", "entity_research", "out_of_scope"}

intent_fallback == "research_query"

complex_intents == {"trend_analysis", "comparison"}

\* s[:n]
Prefix(s, n) == IF Len(s) <= n THEN s ELSE SubSeq(s, 1, n)

\* {**mapping, **updates}
Updated(mapping, updates) ==
    [k \in DOMAIN mapping \cup DOMAIN updates |->
        IF k \in DOMAIN updates THEN updates[k] ELSE mapping[k]]

-----------------------------------------------------------------------------
(* Intent classification boundary: LLMServiceClient.classify_intent *)

\* response.get("content", "").strip().lower() on the answers of the model
StripLower(content) ==
    CASE content = " Comparison\n" -> "comparison"
      [] content = "TREND_ANALYSIS" -> "trend_analysis"
      [] content = "Out_Of_Scope " -> "out_of_scope"
      [] content = "The intent is comparison" -> "the intent is comparison"
      [] OTHER -> content

\* the answers the model-serving collaborator may give to a classification
ClassifyAnswers ==
    {[ok |-> TRUE, content |-> c] :
        c \in valid_intents \cup {" Comparison\n", "TREND_ANALYSIS",
                                  "Out_Of_Scope ", "The intent is comparison",
                                  "funding", ""}}
    \cup {[ok |-> FALSE, content |-> ""]}

\* variant: a failed classification call yields no intent
LLMClassifyIntent_none_on_failure(answer) ==
    IF ~answer.ok
    THEN NoneVal
    ELSE LET intent == StripLower(answer.content)
         IN  IF intent \notin valid_intents THEN intent_fallback ELSE intent

\* variant: the answer is passed on without validation
LLMClassifyIntent_unvalidated(answer) ==
    IF ~answer.ok
    THEN intent_fallback
    ELSE StripLower(answer.content)

LLMClassifyIntent(answer) ==
    IF ~answer.ok
    THEN intent_fallback
    ELSE LET intent == StripLower(answer.content)
         IN  IF intent \notin valid_intents THEN intent_fallback ELSE intent

-----------------------------------------------------------------------------
(* Conditional edge functions: app/graph/edges.py *)

\* variant: comparison is sent to retrieval as well
should_retrieve_context_comparison(s) ==
    IF Get(s, "intent", NoneVal) \in {"research_query", "temporal_query",
                                      "entity_research", "comparison"}
    THEN "retrieve_context"
    ELSE "execute_tools"

\* variant: only research_query is sent to retrieval
should_retrieve_context_research_only(s) ==
    IF Get(s, "intent", NoneVal) = "research_query"
    THEN "retrieve_context"
    ELSE "execute_tools"

should_retrieve_context(s) ==
    IF Get(s, "intent", NoneVal) \in {"research_query", "temporal_query", "entity_research"}
    THEN "retrieve_context"
    ELSE "execute_tools"

\* variant: only trend_analysis counts as a complex intent
should_use_reasoning_trend_only(s) ==
    IF Get(s, "intent", NoneVal) = "trend_analysis"
    THEN "reasoning_step"
    ELSE "generate_response"

\* variant: research_query counts as a complex intent as well
should_use_reasoning_research_too(s) ==
    IF Get(s, "intent", NoneVal) \in complex_intents \cup {"research_query"}
    THEN "reasoning_step"
    ELSE "generate_response"

should_use_reasoning(s) ==
    IF Get(s, "intent", NoneVal) \in complex_intents
    THEN "reasoning_step"
    ELSE "generate_response"

\* should_handle_error; a context that is None is a context key in absent
should_handle_error(s) ==
    IF Truthy(Get(s, "error", NoneVal)) THEN "handle_error"
    ELSE IF "context" \notin s.absent THEN "generate_response"
    ELSE IF Get(s, "tools_used", <<>>) # <<>> THEN "generate_response"
    ELSE "END"

-----------------------------------------------------------------------------
(* Routing closures of build_agent_graph: app/graph/graph.py *)

HasError(s) == Truthy(Get(s, "error", NoneVal))

\* variant: an intent outside valid_intents defaults to retrieval
route_from_classify_intent_default_research(s) ==
    IF HasError(s) THEN "handle_error"
    ELSE IF Get(s, "intent", NoneVal) \notin valid_intents THEN "retrieve_context"
    ELSE should_retrieve_context(s)

route_from_classify_intent(s) ==
    IF HasError(s) THEN "handle_error"
    ELSE LET result == should_retrieve_context(s)
         IN  IF result \notin {"retrieve_context", "execute_tools", "handle_error"}
             THEN "retrieve_context"
             ELSE result

route_from_retrieve_context(s) ==
    IF HasError(s) THEN "handle_error" ELSE should_use_reasoning(s)

route_from_reasoning_step(s) ==
    IF HasError(s) THEN "handle_error" ELSE "generate_response"

route_from_execute_tools(s) ==
    IF HasError(s) THEN "handle_error" ELSE should_use_reasoning(s)

route_from_generate_response(s) ==
    IF HasError(s) THEN "handle_error" ELSE "validate_response"

\* variant: the retry flag is looked at before the error
route_from_validate_response_retried_first(s) ==
    IF Get(s, "validation_retried", FALSE) THEN "END"
    ELSE IF HasError(s) THEN "handle_error"
    ELSE LET validation == Get(s, "validation", EmptyValidation)
         IN  IF validation.kind = "None" THEN "RAISED"
             ELSE IF CorrectionsNeeded(validation) THEN "generate_response"
             ELSE "END"

\* validation = state.get("validation", {}); validation.get(...) raises
\* AttributeError when the key is present and holds None
route_from_validate_response(s) ==
    IF HasError(s) THEN "handle_error"
    ELSE IF Get(s, "validation_retried", FALSE) THEN "END"
    ELSE LET validation == Get(s, "validation", EmptyValidation)
         IN  IF validation.kind = "None" THEN "RAISED"
             ELSE IF CorrectionsNeeded(validation) THEN "generate_response"
             ELSE "END"

\* the edge taken after a node: its conditional edge function, or the
\* unconditional edge handle_error -> END
RouteFrom(node, s) ==
    CASE node = "classify_intent" -> route_from_classify_intent(s)
      [] node = "retrieve_context" -> route_from_retrieve_context(s)
      [] node = "execute_tools" -> route_from_execute_tools(s)
      [] node = "reasoning_step" -> route_from_reasoning_step(s)
      [] node = "generate_response" -> route_from_generate_response(s)
      [] node = "validate_response" -> route_from_validate_response(s)
      [] node = "handle_error" -> "END"

-----------------------------------------------------------------------------
(* What the external collaborators may answer *)

ExcTexts == {"timeout", ""}

Doc(chunk, content, url, date) ==
    [content |-> content, document_id |-> "doc-" \o chunk, chunk_id |-> chunk,
     metadata |-> [article_url |-> "", url |-> url, source_url |-> "",
                   published_date |-> "", date |-> date]]

D1 == Doc("c1", "Acme raised $10M", "https://news/acme", "2025-12-19")
D2 == Doc("c2", "Globex raised $5M", "", "")

\* response.get("results", []) of the retrieval collaborator
RagResults == {<<>>, <<D1>>, <<D1, D2>>}

RagOutcomes ==
    {[ok |-> TRUE, exc |-> "", results |-> r] : r \in RagResults}
    \cup {[ok |-> FALSE, exc |-> e, results |-> <<>>] : e \in ExcTexts}

\* the reply to the decomposition prompt: the call fails, the text is not
\* JSON, or it is an object whose "sub_queries" entry is the given list
SubQueryChoices ==
    {[query |-> "Acme funding", type |-> "entity_research"],
     [query |-> "Globex funding", type |-> "entity_research"]}

DecomposeOutcomes ==
    {[ok |-> TRUE, parsed |-> TRUE, sub_queries |-> q] :
        q \in {<<>>} \cup {q \in SeqsUpTo(SubQueryChoices, MaxSubQueries) :
                            \A i, j \in 1..Len(q) : i < j => q[i] # q[j]}}
    \cup {[ok |-> TRUE, parsed |-> FALSE, sub_queries |-> <<>>],
          [ok |-> FALSE, parsed |-> FALSE, sub_queries |-> <<>>]}

NoDecomposition == [ok |-> FALSE, parsed |-> FALSE, sub_queries |-> <<>>]

ToolOutcomes ==
    {[ok |-> TRUE, exc |-> "", result |-> r] : r \in {"{\"total_deals\": 3}", "{\"error\": \"x\"}"}}
    \cup {[ok |-> FALSE, exc |-> e, result |-> ""] : e \in ExcTexts}

\* complete(): the reply text and the raw "usage" entry of the response
\* (NoneVal when the entry is missing or null)
CompletionOutcomes ==
    {[ok |-> TRUE, exc |-> "", content |-> c, usage |-> u] :
        c \in {"Acme raised $10M [Source: https://news/acme, 2025-12-19]", ""},
        u \in {NoneVal, NonDict, EmptyDict, TokenDict}}
    \cup {[ok |-> FALSE, exc |-> e, content |-> "", usage |-> NoneVal] : e \in ExcTexts}

ReasoningOutcomes ==
    {[ok |-> TRUE, exc |-> "", content |-> c] : c \in {"Reasoning: 1. ...", ""}}
    \cup {[ok |-> FALSE, exc |-> e, content |-> ""] : e \in ExcTexts}

\* the validator's reply: the call fails, the text is not JSON, the JSON is
\* not an object, or it is an object; issues_ok is FALSE when len(issues)
\* raises (issues is null or a number)
Verdicts ==
    {[kind |-> "dict", corrections_needed |-> c, issues_ok |-> i] :
        c \in {"true", "false", "absent"}, i \in BOOLEAN}

ValidationOutcomes ==
    {[ok |-> TRUE, parsed |-> "dict", verdict |-> v] : v \in Verdicts}
    \cup {[ok |-> TRUE, parsed |-> p, verdict |-> EmptyValidation] : p \in {"invalid_json", "non_dict"}}
    \cup {[ok |-> FALSE, parsed |-> "invalid_json", verdict |-> EmptyValidation]}

-----------------------------------------------------------------------------
(* The context compressor: app/services/context_compressor.py. Contents   *)
(* are strings and metadata are mappings, as the retrieval collaborator    *)
(* returns them.                                                           *)

max_context_tokens == 4000

RECURSIVE Repeat(_, _)
Repeat(s, n) ==
    IF n = 0 THEN ""
    ELSE IF n % 2 = 0 THEN LET half == Repeat(s, n \div 2) IN half \o half
    ELSE s \o Repeat(s, n - 1)

\* a text of n characters that starts with a fact and ends with a mark
TextOfLength(n) == "Acme raised $10M" \o Repeat(".", n - 17) \o "!"

\* item.get("content", "") and item.get("metadata", {})
ContentOf(item) == IF "content" \in DOMAIN item THEN item.content ELSE ""
MetadataOf(item) == IF "metadata" \in DOMAIN item THEN item.metadata ELSE <<>>

\* contents that are numbers, each written as str() renders it; every
\* other content of the model is a string
NumberContents == {"12345"}

\* retrieved items whose content is empty, a number, exactly 500
\* characters, 501 characters, or 5000 characters: three of the longest and
\* two of 500 characters cost exactly the budget
ContextItems ==
    {[content |-> c, metadata |-> [title |-> "Acme"], document_id |-> "doc-1",
      chunk_id |-> "c1"] :
        c \in {"", TextOfLength(500), TextOfLength(501), TextOfLength(5000)}
             \cup NumberContents}

\* the item execute_tools stores in the context: it has no content entry
ToolResult == [tool |-> "compare_entities", result |-> TextOfLength(16100)]

\* retrieved items, or a tool result alone or after retrieved items
Contexts ==
    SeqsUpTo(ContextItems, MaxContextItems)
    \cup {Append(c, ToolResult) : c \in SeqsUpTo(ContextItems, 4)}

\* variant: the estimate is rounded up
estimated_tokens_rounded_up(context) ==
    LET RECURSIVE total_chars(_)
        total_chars(items) ==
            IF items = <<>> THEN 0
            ELSE Len(ContentOf(Head(items))) + total_chars(Tail(items))
    IN  (total_chars(context) + 3) \div 4

estimated_tokens(context) ==
    LET RECURSIVE total_chars(_)
        total_chars(items) ==
            IF items = <<>> THEN 0
            ELSE Len(ContentOf(Head(items))) + total_chars(Tail(items))
    IN  total_chars(context) \div 4

\* the reply to the fact-extraction prompt for one item: the call fails or
\* the text is not a JSON object, or it is an object with or without a
\* summary and with or without key points
ExtractOutcomes ==
    {[ok |-> FALSE, summary |-> NoneVal, key_points |-> <<>>]}
    \cup {[ok |-> TRUE, summary |-> s, key_points |-> k] :
            s \in {NoneVal, "Acme raised $10M in its Series A."},
            k \in {<<>>, <<"Series A", "$10M">>}}

\* "; ".join(points)
RECURSIVE Join(_)
Join(points) ==
    IF points = <<>> THEN ""
    ELSE IF Len(points) = 1 THEN points[1]
    ELSE points[1] \o "; " \o Join(Tail(points))

\* _compress_item raises, outside its own try block, when it slices a
\* content that is a number to build the extraction prompt
compress_item_raises(item) == ContentOf(item) \in NumberContents

\* variant: the per-item truncation leaves out the compressed marker
compress_item_truncation_unmarked(item, o) ==
    LET content == ContentOf(item)
        metadata == MetadataOf(item)
    IN  IF content = "" THEN <<>>
        ELSE IF ~o.ok
        THEN <<Updated(item,
                     [content |-> Prefix(content, 300) \o "...",
                      metadata |-> Updated(metadata,
                                           [compression_method |-> "truncation"])])>>
        ELSE LET summary == IF o.summary = NoneVal THEN Prefix(content, 200) ELSE o.summary
                 compressed_content ==
                     IF o.key_points = <<>> THEN summary
                     ELSE summary \o "\n\nKey points: " \o Join(Prefix(o.key_points, 3))
             IN <<[content |-> compressed_content,
                  metadata |-> Updated(metadata,
                                       [extracted_funding |-> NoneVal,
                                        extracted_company |-> NoneVal,
                                        extracted_date |-> NoneVal,
                                        extracted_investors |-> NoneVal,
                                        extracted_sectors |-> NoneVal,
                                        compressed |-> TRUE]),
                  document_id |-> IF "document_id" \in DOMAIN item
                                  THEN item.document_id ELSE NoneVal,
                  chunk_id |-> IF "chunk_id" \in DOMAIN item
                               THEN item.chunk_id ELSE NoneVal,
                  similarity |-> IF "similarity" \in DOMAIN item
                                 THEN item.similarity ELSE 0]>>

\* _compress_item: the one-element list of the compressed item, or the
\* empty list when it returns None (the item has no content)
compress_item(item, o) ==
    LET content == ContentOf(item)
        metadata == MetadataOf(item)
    IN  IF content = "" THEN <<>>
        ELSE IF ~o.ok
        THEN <<Updated(item,
                     [content |-> Prefix(content, 300) \o "...",
                      metadata |-> Updated(metadata,
                                           [compressed |-> TRUE,
                                            compression_method |-> "truncation"])])>>
        ELSE LET summary == IF o.summary = NoneVal THEN Prefix(content, 200) ELSE o.summary
                 compressed_content ==
                     IF o.key_points = <<>> THEN summary
                     ELSE summary \o "\n\nKey points: " \o Join(Prefix(o.key_points, 3))
             IN <<[content |-> compressed_content,
                  metadata |-> Updated(metadata,
                                       [extracted_funding |-> NoneVal,
                                        extracted_company |-> NoneVal,
                                        extracted_date |-> NoneVal,
                                        extracted_investors |-> NoneVal,
                                        extracted_sectors |-> NoneVal,
                                        compressed |-> TRUE]),
                  document_id |-> IF "document_id" \in DOMAIN item
                                  THEN item.document_id ELSE NoneVal,
                  chunk_id |-> IF "chunk_id" \in DOMAIN item
                               THEN item.chunk_id ELSE NoneVal,
                  similarity |-> IF "similarity" \in DOMAIN item
                                 THEN item.similarity ELSE 0]>>

\* the replies the extraction calls of compress_context get: one per item
\* on the per-item path, none on the other paths
ExtractionsFor(context) ==
    IF estimated_tokens(context) > max_context_tokens /\ Len(context) <= 5
    THEN [1..Len(context) -> ExtractOutcomes]
    ELSE {<<>>}

\* variant: the ellipsis is appended to short contents as well
compress_context_always_ellipsis(context, extractions) ==
    IF context = <<>> THEN context
    ELSE IF estimated_tokens(context) <= max_context_tokens THEN context
    ELSE IF Len(context) > 5
    THEN [i \in 1..5 |->
            LET item == context[i]
                content == ContentOf(item)
            IN  Updated(item,
                        [content |-> Prefix(content, 500) \o "...",
                         metadata |-> Updated(MetadataOf(item),
                                              [compressed |-> TRUE,
                                               compression_method |-> "truncation"])])]
    ELSE IF \E i \in 1..Len(context) : compress_item_raises(context[i])
    THEN [i \in 1..Len(context) |->
            Updated(context[i],
                    [content |-> Prefix(ContentOf(context[i]), 500) \o "...",
                     metadata |-> Updated(MetadataOf(context[i]),
                                          [compressed |-> TRUE,
                                           compression_method |-> "fallback_truncation"])])]
    ELSE LET RECURSIVE compressed_items(_)
             compressed_items(i) ==
                 IF i > Len(context) THEN <<>>
                 ELSE compress_item(context[i], extractions[i]) \o compressed_items(i + 1)
         IN  compressed_items(1)

\* the outer except branch is entered when _compress_item raises past its
\* own handler; the list it returns is cut to context[:5], which is the
\* whole context on the per-item path
compress_context(context, extractions) ==
    IF context = <<>> THEN context
    ELSE IF estimated_tokens(context) <= max_context_tokens THEN context
    ELSE IF Len(context) > 5
    THEN [i \in 1..5 |->
            LET item == context[i]
                content == ContentOf(item)
            IN  Updated(item,
                        [content |-> IF Len(content) > 500
                                     THEN Prefix(content, 500) \o "..."
                                     ELSE content,
                         metadata |-> Updated(MetadataOf(item),
                                              [compressed |-> TRUE,
                                               compression_method |-> "truncation"])])]
    ELSE IF \E i \in 1..Len(context) : compress_item_raises(context[i])
    THEN [i \in 1..Len(context) |->
            Updated(context[i],
                    [content |-> Prefix(ContentOf(context[i]), 500) \o "...",
                     metadata |-> Updated(MetadataOf(context[i]),
                                          [compressed |-> TRUE,
                                           compression_method |-> "fallback_truncation"])])]
    ELSE LET RECURSIVE compressed_items(_)
             compressed_items(i) ==
                 IF i > Len(context) THEN <<>>
                 ELSE compress_item(context[i], extractions[i]) \o compressed_items(i + 1)
         IN  compressed_items(1)

-----------------------------------------------------------------------------
(* The query rewriter's handling of the model's answer:                   *)
(* app/services/query_rewriter.py                                         *)

StartsWith(s, prefix) ==
    Len(s) >= Len(prefix) /\ SubSeq(s, 1, Len(prefix)) = prefix

RECURSIVE StripChar(_, _)
\* str.strip(c) for one character c
StripChar(s, c) ==
    IF s = "" THEN s
    ELSE IF SubSeq(s, 1, 1) = c THEN StripChar(SubSeq(s, 2, Len(s)), c)
    ELSE IF SubSeq(s, Len(s), Len(s)) = c THEN StripChar(SubSeq(s, 1, Len(s) - 1), c)
    ELSE s

Strip(s) == StripChar(s, " ")

list_prefixes == <<"-", "*", "1.", "2.", "3.", "4.", "5.">>

\* one line of the answer without its bullet or number and without quotes
extracted_line(text_line) ==
    LET line == Strip(text_line)
        found == {i \in 1..Len(list_prefixes) : StartsWith(line, list_prefixes[i])}
        first == CHOOSE i \in found : \A j \in found : i <= j
        unnumbered == IF found = {} THEN line
                      ELSE Strip(SubSeq(line, Len(list_prefixes[first]) + 1, Len(line)))
    IN  Strip(StripChar(StripChar(unnumbered, "\""), "'"))

_extract_queries_from_text(lines) ==
    LET extracted == [i \in 1..Len(lines) |-> extracted_line(lines[i])]
    IN  Prefix(SelectSeq(extracted, LAMBDA line : Len(line) > 5), 5)

cache_key(query, intent) == query \o ":" \o Str(intent)

\* the (query, intent) pairs callers pass: the query is the user's text or a
\* sub-query of the decomposition, the intent the classified intent or a
\* sub-query's "type" as the model wrote it
RewritePairs ==
    {<<"AI funding", "research_query">>,
     <<"AI: trends", "research_query">>,
     <<"AI", " trends:research_query">>}

Variation(query, n) == query \o " (" \o ToString(n) \o ")"

\* what the model may answer to the rewriting prompt for a query
RewriteAnswers(query) ==
    {[kind |-> "raises"],
     [kind |-> "json_array"],
     [kind |-> "json", queries |-> <<>>],
     [kind |-> "json", queries |-> <<Variation(query, 1), Variation(query, 2)>>],
     [kind |-> "json", queries |-> <<Variation(query, 1), query>>],
     [kind |-> "json", queries |-> [i \in 1..6 |-> IF i = 6 THEN query ELSE Variation(query, i)]],
     [kind |-> "text", lines |-> <<"1. " \o Variation(query, 1),
                                   " - \"" \o Variation(query, 2) \o "\"", "* n/a">>],
     [kind |-> "text", lines |-> <<"Sorry">>]}

\* the answers to the rewriting prompt that a turn is followed with: the
\* model fails, or answers with two variations, for every call of the turn
RewriteKinds == {"raises", "json"}

RewriteAnswerOf(query, kind) ==
    IF kind = "raises" THEN [kind |-> "raises"]
    ELSE [kind |-> "json", queries |-> <<Variation(query, 1), Variation(query, 2)>>]

\* the try block of rewrite_query from the model's answer on: whether it
\* raised, and the list it made
rewritten(query, answer) ==
    IF answer.kind \in {"raises", "json_array"}
    THEN [raised |-> TRUE, queries |-> <<>>]
    ELSE LET parsed == IF answer.kind = "json" THEN answer.queries
                       ELSE _extract_queries_from_text(answer.lines)
         IN  [raised |-> FALSE,
              queries |-> IF parsed = <<>> THEN <<query>>
                          ELSE IF \E i \in 1..Len(parsed) : parsed[i] = query THEN Prefix(parsed, 5)
                          ELSE Prefix(<<query>> \o parsed, 5)]

\* the cache is a dict in insertion order; each entry also remembers the
\* pair of the call that made it
CacheIndex(entries, key) ==
    {i \in 1..Len(entries) : entries[i].key = key}

CacheWritten(entries, key, queries, pair) ==
    LET entry == [key |-> key, queries |-> queries, pair |-> pair]
    IN  IF CacheIndex(entries, key) = {} THEN Append(entries, entry)
        ELSE [i \in 1..Len(entries) |->
                IF entries[i].key = key THEN entry ELSE entries[i]]

-----------------------------------------------------------------------------
(* The filter extraction: app/services/query_extractor.py *)

_default_parameters ==
    [time_period |-> NoneVal, sector_filter |-> NoneVal, company_filter |-> NoneVal,
     investor_filter |-> NoneVal, date_range |-> NoneVal]

\* what the model may answer to the extraction prompt; a list of names is
\* written as its JSON text
ExtractionAnswers ==
    {[kind |-> "raises"],
     [kind |-> "text"],
     [kind |-> "json", time_period |-> "last_30_days", sector_filter |-> NoneVal,
      company_filter |-> "[\"Acme\"]", investor_filter |-> NoneVal,
      date_range |-> NoneVal]}

\* variant: a failed extraction keeps a default period
extract_parameters_default_period(answer) ==
    IF answer.kind \in {"raises", "text"}
    THEN Updated(_default_parameters, [time_period |-> "all_time"])
    ELSE [time_period |-> answer.time_period,
          sector_filter |-> answer.sector_filter,
          company_filter |-> answer.company_filter,
          investor_filter |-> answer.investor_filter,
          date_range |-> answer.date_range]

\* extract_parameters: the filters of the answer, or none when the call
\* fails or the answer is not JSON
extract_parameters(answer) ==
    IF answer.kind \in {"raises", "text"} THEN _default_parameters
    ELSE [time_period |-> answer.time_period,
          sector_filter |-> answer.sector_filter,
          company_filter |-> answer.company_filter,
          investor_filter |-> answer.investor_filter,
          date_range |-> answer.date_range]

-----------------------------------------------------------------------------
(* Node functions: app/graph/nodes.py *)

FirstTruthy(values) ==
    IF \E i \in 1..Len(values) : Truthy(values[i])
    THEN values[CHOOSE i \in 1..Len(values) :
                    Truthy(values[i]) /\ \A j \in 1..(i - 1) : ~Truthy(values[j])]
    ELSE ""

\* the citation record built for one retrieved item
SourceOf(r) ==
    [content |-> r.content, metadata |-> r.metadata,
     document_id |-> r.document_id, chunk_id |-> r.chunk_id,
     article_url |-> FirstTruthy(<<r.metadata.article_url, r.metadata.url,
                                   r.metadata.source_url>>),
     published_date |-> FirstTruthy(<<r.metadata.published_date, r.metadata.date>>)]

\* variant: a failed classification call is surfaced as an error
classify_intent_surfaces_error(s, answer) ==
    IF UserMessages(s.messages) = <<>>
    THEN Put(s, "intent", "research_query")
    ELSE IF ~answer.ok
    THEN Put(s, "error", "Intent classification failed")
    ELSE Put(s, "intent", LLMClassifyIntent(answer))

classify_intent(s, answer) ==
    IF UserMessages(s.messages) = <<>>
    THEN Put(s, "intent", "research_query")
    ELSE Put(s, "intent", LLMClassifyIntent(answer))

\* query.lower() on the queries of the model
Lower(query) ==
    CASE query = "What is Xynenyx?" -> "what is xynenyx?"
      [] query = "Compare Acme and Globex funding" -> "compare acme and globex funding"
      [] query = "Acme funding" -> "acme funding"
      [] query = "Globex funding" -> "globex funding"
      [] OTHER -> query

multi_part_indicators ==
    {" and ", " or ", "compare", "versus", " vs ", ", and", ", then", "? and", "? then"}

has_indicator(query) ==
    \E indicator \in multi_part_indicators : Contains(Lower(query), indicator)

\* the queries of the model, and those of them that are multi-part
ModelQueries ==
    {"", "What is Xynenyx?", "Compare Acme and Globex funding", "Acme funding",
     "Globex funding"}

MultiPartQueries == {query \in ModelQueries : has_indicator(query)}

is_multi_part(query) ==
    IF query \in ModelQueries THEN query \in MultiPartQueries
    ELSE has_indicator(query)

decompose_query(query, o) ==
    IF ~is_multi_part(query) THEN <<[query |-> query, type |-> "single"]>>
    ELSE IF ~o.ok \/ ~o.parsed THEN <<[query |-> query, type |-> "single"]>>
    ELSE IF o.sub_queries = <<>> THEN <<[query |-> query, type |-> "single"]>>
    ELSE o.sub_queries

\* result.get("chunk_id") or result.get("id")
IdOf(item) ==
    IF "chunk_id" \in DOMAIN item /\ Truthy(item.chunk_id) THEN item.chunk_id
    ELSE IF "id" \in DOMAIN item THEN item.id
    ELSE NoneVal

\* variant: an item without an identifier is kept as well
RECURSIVE Dedup_keeps_unidentified(_, _, _)
Dedup_keeps_unidentified(items, seen, kept) ==
    IF items = <<>> THEN [kept |-> kept, seen |-> seen]
    ELSE LET item == Head(items)
             chunk_id == IdOf(item)
         IN  IF chunk_id \notin seen
             THEN Dedup_keeps_unidentified(Tail(items),
                                           IF Truthy(chunk_id) THEN seen \cup {chunk_id} ELSE seen,
                                           Append(kept, item))
             ELSE Dedup_keeps_unidentified(Tail(items), seen, kept)

\* variant: the identifiers of the kept items are not remembered
RECURSIVE Dedup_seen_not_recorded(_, _, _)
Dedup_seen_not_recorded(items, seen, kept) ==
    IF items = <<>> THEN [kept |-> kept, seen |-> seen]
    ELSE LET item == Head(items)
             chunk_id == IdOf(item)
         IN  IF Truthy(chunk_id) /\ chunk_id \notin seen
             THEN Dedup_seen_not_recorded(Tail(items), seen, Append(kept, item))
             ELSE Dedup_seen_not_recorded(Tail(items), seen, kept)

\* one deduplication loop of merge_results: keeps the items whose identifier
\* is truthy and not yet in seen, and adds the kept identifiers to seen
RECURSIVE Dedup(_, _, _)
Dedup(items, seen, kept) ==
    IF items = <<>> THEN [kept |-> kept, seen |-> seen]
    ELSE LET item == Head(items)
             chunk_id == IdOf(item)
         IN  IF Truthy(chunk_id) /\ chunk_id \notin seen
             THEN Dedup(Tail(items), seen \cup {chunk_id}, Append(kept, item))
             ELSE Dedup(Tail(items), seen, kept)

RECURSIVE Extend(_, _)
Extend(sub_query_results, field) ==
    IF sub_query_results = <<>> THEN <<>>
    ELSE Head(sub_query_results)[field] \o Extend(Tail(sub_query_results), field)

\* variant: the citations are passed through without deduplication
merge_results_citations_passed_through(sub_query_results, original_query) ==
    LET all_results == Extend(sub_query_results, "results")
        all_sources == Extend(sub_query_results, "sources")
        results == Dedup(all_results, {}, <<>>)
    IN  [results |-> results.kept,
         sources |-> all_sources,
         count |-> Len(results.kept),
         sub_query_count |-> Len(sub_query_results)]

merge_results(sub_query_results, original_query) ==
    LET all_results == Extend(sub_query_results, "results")
        all_sources == Extend(sub_query_results, "sources")
        results == Dedup(all_results, {}, <<>>)
        sources == Dedup(all_sources, results.seen, <<>>)
    IN  [results |-> results.kept,
         sources |-> sources.kept,
         count |-> Len(results.kept),
         sub_query_count |-> Len(sub_query_results)]

SourcesOf(results) == [i \in 1..Len(results) |-> SourceOf(results[i])]

\* the answers to the calls retrieve_context makes for a query: the
\* extraction reply, the decomposition reply, the rewriting replies and one
\* retrieval reply per sub-query (a single retrieval when the query is not
\* multi-part)
RetrieveOutcomes(query) ==
    UNION {[extraction : ExtractionAnswers, decomposition : {d},
            rewriting : RewriteKinds,
            rag : [1..Len(decompose_query(query, d)) -> RagOutcomes]] :
              d \in IF is_multi_part(query) THEN DecomposeOutcomes
                    ELSE {NoDecomposition}}

LatestUserQuery(s) ==
    LET user_messages == UserMessages(s.messages)
    IN  IF user_messages = <<>> THEN "" ELSE user_messages[Len(user_messages)].content

\* variant: the type of the last sub-query is stored as the intent
retrieve_context_sub_query_intent(s, o) ==
    IF UserMessages(s.messages) = <<>> THEN s
    ELSE LET query == LatestUserQuery(s)
         IN  IF is_multi_part(query)
             THEN LET sub_queries == decompose_query(query, o.decomposition)
                      calls == 1..Len(sub_queries)
                      failed == {i \in calls : ~o.rag[i].ok}
                  IN  IF failed # {}
                      THEN LET first == CHOOSE i \in failed : \A j \in failed : i <= j
                           IN  Put(s, "error", "Failed to retrieve context: " \o o.rag[first].exc)
                      ELSE LET sub_query_results ==
                                   [i \in calls |->
                                       [results |-> o.rag[i].results,
                                        sources |-> SourcesOf(o.rag[i].results),
                                        count |-> Len(o.rag[i].results)]]
                               merged == merge_results(sub_query_results, query)
                           IN  Put(Put(Put(s, "context", merged.results),
                                       "sources", merged.sources),
                                   "intent", sub_queries[Len(sub_queries)].type)
             ELSE IF ~o.rag[1].ok
             THEN Put(s, "error", "Failed to retrieve context: " \o o.rag[1].exc)
             ELSE LET results == o.rag[1].results
                  IN  Put(Put(s, "context", results), "sources", SourcesOf(results))

\* the filter extraction and the query rewriting only shape the arguments
\* of the retrieval calls and never raise; the retrieval replies are free
retrieve_context(s, o) ==
    IF UserMessages(s.messages) = <<>> THEN s
    ELSE LET query == LatestUserQuery(s)
         IN  IF is_multi_part(query)
             THEN LET sub_queries == decompose_query(query, o.decomposition)
                      calls == 1..Len(sub_queries)
                      failed == {i \in calls : ~o.rag[i].ok}
                  IN  IF failed # {}
                      THEN LET first == CHOOSE i \in failed : \A j \in failed : i <= j
                           IN  Put(s, "error", "Failed to retrieve context: " \o o.rag[first].exc)
                      ELSE LET sub_query_results ==
                                   [i \in calls |->
                                       [results |-> o.rag[i].results,
                                        sources |-> SourcesOf(o.rag[i].results),
                                        count |-> Len(o.rag[i].results)]]
                               merged == merge_results(sub_query_results, query)
                           IN  Put(Put(s, "context", merged.results),
                                   "sources", merged.sources)
             ELSE IF ~o.rag[1].ok
             THEN Put(s, "error", "Failed to retrieve context: " \o o.rag[1].exc)
             ELSE LET results == o.rag[1].results
                  IN  Put(Put(s, "context", results), "sources", SourcesOf(results))

\* the calls retrieve_context makes for a state: the requests it sends to
\* the retrieval collaborator, up to the first that fails, and the rewriter
\* cache it leaves; query_variations is the empty list where None is sent.
\* The loop over the sub-queries is written out: a rewriting call finds its
\* key in the cache as it was, or written by the first earlier call of the
\* loop with that key, or asks the model. Each request notes whether the
\* rewriting call before it failed, and "failed" names the services whose
\* model call failed.
retrieve_calls(s, o, entries) ==
    IF UserMessages(s.messages) = <<>>
    THEN [requests |-> <<>>, failed |-> {}, cache |-> entries]
    ELSE LET query == LatestUserQuery(s)
             intent == Get(s, "intent", "research_query")
             params == extract_parameters(o.extraction)
             sub_queries == IF is_multi_part(query)
                            THEN decompose_query(query, o.decomposition)
                            ELSE <<[query |-> query, type |-> intent]>>
             failing == {i \in 1..Len(sub_queries) : ~o.rag[i].ok}
             made == IF failing = {} THEN Len(sub_queries)
                     ELSE CHOOSE i \in failing : \A j \in failing : i <= j
             key(i) == cache_key(sub_queries[i].query, sub_queries[i].type)
             cached(i) == CacheIndex(entries, key(i)) # {}
             writer(i) == CHOOSE j \in 1..i :
                              /\ key(j) = key(i)
                              /\ \A k \in 1..(j - 1) : key(k) # key(i)
             answer(i) == RewriteAnswerOf(sub_queries[i].query, o.rewriting)
             query_variations(i) ==
                 IF cached(i)
                 THEN entries[CHOOSE e \in CacheIndex(entries, key(i)) : TRUE].queries
                 ELSE IF rewritten(sub_queries[i].query, answer(i)).raised
                 THEN <<sub_queries[i].query>>
                 ELSE rewritten(sub_queries[writer(i)].query, answer(writer(i))).queries
             rewriting_failed(i) ==
                 ~cached(i) /\ rewritten(sub_queries[i].query, answer(i)).raised
             request(i) ==
                 [query |-> sub_queries[i].query,
                  date_filter |-> params.time_period,
                  company_filter |-> params.company_filter,
                  investor_filter |-> params.investor_filter,
                  sector_filter |-> params.sector_filter,
                  use_multi_query |-> Len(query_variations(i)) > 1,
                  query_variations |-> IF Len(query_variations(i)) > 1
                                       THEN query_variations(i) ELSE <<>>,
                  rewriting_failed |-> rewriting_failed(i)]
             written == SelectSeq([i \in 1..made |-> i],
                                  LAMBDA i : /\ ~cached(i)
                                             /\ ~rewriting_failed(i)
                                             /\ writer(i) = i)
         IN  [requests |-> [i \in 1..made |-> request(i)],
              failed |-> (IF o.extraction.kind = "raises" THEN {"extraction"} ELSE {})
                         \cup (IF is_multi_part(query) /\ ~o.decomposition.ok
                               THEN {"decomposition"} ELSE {})
                         \cup (IF \E i \in 1..made : rewriting_failed(i)
                               THEN {"rewriting"} ELSE {}),
              cache |-> entries \o
                        [w \in 1..Len(written) |->
                            [key |-> key(written[w]),
                             queries |-> query_variations(written[w]),
                             pair |-> <<sub_queries[written[w]].query,
                                        sub_queries[written[w]].type>>]]]

\* variant: every intent but comparison and trend_analysis is searched
ToolFor_search_by_default(intent) ==
    CASE intent = "comparison" -> "compare_entities"
      [] intent = "trend_analysis" -> "analyze_trends"
      [] OTHER -> "rag_search"

\* the tool execute_tools dispatches to for an intent ("" when none)
ToolFor(intent) ==
    CASE intent = "comparison" -> "compare_entities"
      [] intent = "trend_analysis" -> "analyze_trends"
      [] intent \in {"research_query", "temporal_query", "entity_research"} -> "rag_search"
      [] OTHER -> ""

\* variant: a tool that raised is recorded in tools_used
execute_tools_records_failed_tool(s, o) ==
    LET intent == Get(s, "intent", NoneVal)
        tools_used == Get(s, "tools_used", <<>>)
        tool == ToolFor(intent)
    IN  IF UserMessages(s.messages) = <<>> THEN s
        ELSE IF tool = "" THEN Put(s, "tools_used", tools_used)
        ELSE IF ~o.ok
        THEN Put(Put(s, "tools_used", Append(tools_used, tool)),
                 "error", "Tool execution failed: " \o o.exc)
        ELSE Put(Put(s, "context", <<[tool |-> tool, result |-> o.result]>>),
                 "tools_used", Append(tools_used, tool))

execute_tools(s, o) ==
    LET intent == Get(s, "intent", NoneVal)
        tools_used == Get(s, "tools_used", <<>>)
        tool == ToolFor(intent)
    IN  IF UserMessages(s.messages) = <<>> THEN s
        ELSE IF tool = "" THEN Put(s, "tools_used", tools_used)
        ELSE IF ~o.ok THEN Put(s, "error", "Tool execution failed: " \o o.exc)
        ELSE Put(Put(s, "context", <<[tool |-> tool, result |-> o.result]>>),
                 "tools_used", Append(tools_used, tool))

\* variant: a failed reasoning call is surfaced as an error
reasoning_step_surfaces_error(s, o) ==
    IF Get(s, "intent", "research_query") \notin complex_intents THEN s
    ELSE IF UserMessages(s.messages) = <<>> THEN s
    ELSE IF ~o.ok THEN Put(s, "error", "Reasoning failed: " \o o.exc)
    ELSE Put(s, "reasoning", o.content)

reasoning_step(s, o) ==
    IF Get(s, "intent", "research_query") \notin complex_intents THEN s
    ELSE IF UserMessages(s.messages) = <<>> THEN s
    ELSE IF ~o.ok THEN s
    ELSE Put(s, "reasoning", o.content)

\* variant: the failure path leaves usage as it was
generate_response_usage_untouched(s, o) ==
    IF ~o.ok
    THEN Put(s, "error", "Failed to generate response: " \o o.exc)
    ELSE LET s1 == [s EXCEPT !.messages = Append(@, AIMessage(o.content))]
             s2 == Put(s1, "usage", IF IsMapping(o.usage) THEN o.usage ELSE EmptyDict)
         IN  IF Get(s2, "sources", <<>>) = <<>>
             THEN Put(s2, "sources", <<>>)
             ELSE s2

\* the context generate_response puts into the prompt: the state's context,
\* compressed when there is one
prompt_context(s, extractions) ==
    LET context == Get(s, "context", <<>>)
    IN  IF context = <<>> THEN context ELSE compress_context(context, extractions)

generate_response(s, o) ==
    IF ~o.ok
    THEN LET s1 == Put(s, "error", "Failed to generate response: " \o o.exc)
         IN  IF Get(s1, "usage", NoneVal) = NoneVal
             THEN Put(s1, "usage", EmptyDict)
             ELSE s1
    ELSE LET s1 == [s EXCEPT !.messages = Append(@, AIMessage(o.content))]
             s2 == Put(s1, "usage", IF IsMapping(o.usage) THEN o.usage ELSE EmptyDict)
         IN  IF Get(s2, "sources", <<>>) = <<>>
             THEN Put(s2, "sources", <<>>)
             ELSE s2

\* variant: the flag is written from every verdict
validate_response_flag_from_verdict(s, o) ==
    IF AssistantMessages(s.messages) = <<>> THEN s
    ELSE IF ~o.ok \/ o.parsed # "dict" THEN s
    ELSE IF ~o.verdict.issues_ok THEN s
    ELSE Put(Put(s, "validation", o.verdict),
             "validation_retried", CorrectionsNeeded(o.verdict))

\* variant: the node leaves the retry flag to the router, so that a verdict
\* asking for corrections leads back to generate_response
validate_response_retry_enabled(s, o) ==
    IF AssistantMessages(s.messages) = <<>> THEN s
    ELSE IF ~o.ok \/ o.parsed # "dict" THEN s
    ELSE IF ~o.verdict.issues_ok THEN s
    ELSE Put(s, "validation", o.verdict)

validate_response(s, o) ==
    IF AssistantMessages(s.messages) = <<>> THEN s
    ELSE IF ~o.ok \/ o.parsed # "dict" THEN s
    ELSE IF ~o.verdict.issues_ok THEN s
    ELSE LET s1 == Put(s, "validation", o.verdict)
         IN  IF CorrectionsNeeded(o.verdict)
             THEN Put(s1, "validation_retried", TRUE)
             ELSE s1

ApologyFor(error) ==
    "I apologize, but I encountered an error while processing your request: "
    \o Str(error)
    \o ". Please try rephrasing your question or try again later."

\* variant: the apology does not name the error
handle_error_generic_apology(s) ==
    LET s1 == IF Get(s, "usage", NoneVal) = NoneVal
              THEN Put(s, "usage", EmptyDict)
              ELSE s
        s2 == [s1 EXCEPT !.messages =
                  Append(@, AIMessage("I apologize, but I encountered an error."))]
    IN  Put(s2, "error", NoneVal)

\* variant: the error is left set after the apology
handle_error_keeps_error(s) ==
    LET error == Get(s, "error", "An unknown error occurred")
        s1 == IF Get(s, "usage", NoneVal) = NoneVal
              THEN Put(s, "usage", EmptyDict)
              ELSE s
    IN  [s1 EXCEPT !.messages = Append(@, AIMessage(ApologyFor(error)))]

handle_error(s) ==
    LET error == Get(s, "error", "An unknown error occurred")
        s1 == IF Get(s, "usage", NoneVal) = NoneVal
              THEN Put(s, "usage", EmptyDict)
              ELSE s
        s2 == [s1 EXCEPT !.messages = Append(@, AIMessage(ApologyFor(error)))]
    IN  Put(s2, "error", NoneVal)

-----------------------------------------------------------------------------
(* The initial state of a turn: app/routers/chat.py *)

\* rows of the message store: role and content
StoredRows ==
    {[role |-> "user", content |-> "What is Xynenyx?"],
     [role |-> "assistant", content |-> "Xynenyx is a research assistant."],
     [role |-> "system", content |-> "Be brief."],
     [role |-> "tool", content |-> "{}"]}

Histories == SeqsUpTo(StoredRows, MaxHistory)

RequestMessages == {"What is Xynenyx?", "Compare Acme and Globex funding"}

\* stored rows become messages; a row with any other role is skipped
RECURSIVE LoadHistory(_)
LoadHistory(rows) ==
    IF rows = <<>> THEN <<>>
    ELSE LET row == Head(rows)
             rest == LoadHistory(Tail(rows))
         IN  CASE row.role = "user" -> <<HumanMessage(row.content)>> \o rest
               [] row.role = "assistant" -> <<AIMessage(row.content)>> \o rest
               [] row.role = "system" -> <<SystemMessage(row.content)>> \o rest
               [] OTHER -> rest

Endpoints == {"chat", "chat_stream"}

initial_state(endpoint, rows, message) ==
    [messages |-> Append(LoadHistory(rows), HumanMessage(message)),
     user_id |-> "user-1",
     conversation_id |-> "conv-1",
     intent |-> NoneVal,
     context |-> <<>>,
     tools_used |-> <<>>,
     requires_human |-> FALSE,
     error |-> NoneVal,
     sources |-> <<>>,
     usage |-> NoneVal,
     reasoning |-> NoneVal,
     validation |-> NoValidation,
     validation_retried |-> FALSE,
     absent |-> IF endpoint = "chat"
                THEN {}
                ELSE {"reasoning", "validation", "validation_retried"}]

-----------------------------------------------------------------------------
(* The checkpoint store: app/graph/checkpointer.py. The table is kept in   *)
(* the order of the rows' created_at, which the store assigns on insert.   *)

ThreadIds == {"thread-1", "thread-2"}
CheckpointIds == {"cp-1", "cp-2"}

\* the key of a row
CheckpointKeys == ThreadIds \X CheckpointIds

KeyOf(row) == <<row.thread_id, row.checkpoint_id>>

\* table("agent_checkpoints").upsert(data): a row with the key of data gets
\* the columns that data holds and keeps its other columns; without such a
\* row, data is inserted with its missing columns null
upsert(rows, data) ==
    IF \E i \in 1..Len(rows) : KeyOf(rows[i]) = KeyOf(data)
    THEN [i \in 1..Len(rows) |->
            IF KeyOf(rows[i]) = KeyOf(data) THEN Updated(rows[i], data) ELSE rows[i]]
    ELSE Append(rows, Updated([parent_checkpoint_id |-> NoneVal], data))

\* the rows of a thread, and the one with a checkpoint_id when one is given
Selected(rows, thread_id, checkpoint_id) ==
    LET matches(row) ==
            /\ row.thread_id = thread_id
            /\ Truthy(checkpoint_id) => row.checkpoint_id = checkpoint_id
    IN  SelectSeq(rows, matches)

\* the row put() sends to the store
put_data(thread_id, checkpoint_id, checkpoint, parent_checkpoint_id, metadata) ==
    LET data == [thread_id |-> thread_id,
                 checkpoint_id |-> checkpoint_id,
                 checkpoint |-> checkpoint,
                 metadata |-> IF metadata \in {NoneVal, EmptyDict}
                              THEN EmptyDict ELSE metadata]
    IN  IF Truthy(parent_checkpoint_id)
        THEN Updated(data, [parent_checkpoint_id |-> parent_checkpoint_id])
        ELSE data

\* what get() and list() return for a row
Returned(row) ==
    [checkpoint_id |-> row.checkpoint_id,
     parent_checkpoint_id |-> row.parent_checkpoint_id,
     checkpoint |-> row.checkpoint,
     metadata |-> row.metadata]

\* get(): the empty list stands for None
get(rows, thread_id, checkpoint_id) ==
    LET found == Selected(rows, thread_id, checkpoint_id)
    IN  IF found = <<>> THEN <<>>
        ELSE IF Truthy(checkpoint_id) THEN <<Returned(found[1])>>
        ELSE <<Returned(found[Len(found)])>>

\* list(): newest first, at most limit rows
list(rows, thread_id, limit) ==
    LET found == Selected(rows, thread_id, NoneVal)
        newest_first == [i \in 1..Len(found) |-> Returned(found[Len(found) + 1 - i])]
    IN  Prefix(newest_first, limit)

delete_any_thread(rows, thread_id, checkpoint_id) ==
    LET kept(row) ==
            IF Truthy(checkpoint_id)
            THEN row.checkpoint_id # checkpoint_id
            ELSE row.thread_id # thread_id
    IN  SelectSeq(rows, kept)

\* delete(): the rows of the thread, or its one row with the checkpoint_id
delete(rows, thread_id, checkpoint_id) ==
    LET kept(row) ==
            ~(/\ row.thread_id = thread_id
              /\ Truthy(checkpoint_id) => row.checkpoint_id = checkpoint_id)
    IN  SelectSeq(rows, kept)

NoRewriter ==
    /\ cache = <<>>
    /\ rewrites = <<>>

NoStore ==
    /\ table = <<>>
    /\ latest_put = [k \in CheckpointKeys |-> <<>>]

\* settings.checkpoint_enabled
checkpoint_enabled == TRUE

\* get_agent_graph builds the graph with checkpointer = None whatever the
\* setting is
checkpointer == NoneVal

\* the write a graph compiled with a checkpointer makes after a node: a
\* fresh checkpoint_id, the previous one as parent
checkpoint_write(rows, written, s) ==
    upsert(rows, put_data(s.conversation_id,
                          "cp-" \o ToString(written + 1),
                          s,
                          IF written = 0 THEN NoneVal ELSE "cp-" \o ToString(written),
                          NoneVal))

-----------------------------------------------------------------------------
(* The graph executor: one step runs the node at pc and takes its edge *)

NoRuns == [n \in Nodes |-> 0]

Init ==
    /\ \E endpoint \in Endpoints, rows \in Histories, message \in RequestMessages :
           state = initial_state(endpoint, rows, message)
    /\ pc = "classify_intent"
    /\ last = "START"
    /\ ran = NoRuns
    /\ start = state
    /\ call_failed = FALSE
    /\ given = NoneVal
    /\ returned = NoneVal
    /\ again = NoneVal
    /\ NoStore
    /\ NoRewriter

\* f tells whether a call the node made to a collaborator failed
\* one step of the executor; sent is what the node handed to the
\* collaborators that are followed (NoneVal for a node whose requests are
\* not), entries the rewriter cache the node leaves
StepCalling(node, s2, f, sent, entries) ==
    /\ pc = node
    /\ ran[node] < MaxRuns
    /\ state' = s2
    /\ pc' = RouteFrom(node, s2)
    /\ last' = node
    /\ ran' = [ran EXCEPT ![node] = @ + 1]
    /\ call_failed' = f
    /\ given' = sent
    /\ cache' = entries
    /\ table' = IF checkpointer = NoneVal THEN table
                 ELSE checkpoint_write(table, Len(table), s2)
    /\ UNCHANGED <<start, returned, again, latest_put, rewrites>>

Step(node, s2, f) == StepCalling(node, s2, f, NoneVal, cache)

\* the classification call is followed: the message sent and the reply
ClassifyIntent ==
    \E answer \in ClassifyAnswers :
        StepCalling("classify_intent", classify_intent(state, answer),
                    UserMessages(state.messages) # <<>> /\ ~answer.ok,
                    IF UserMessages(state.messages) = <<>> THEN NoneVal
                    ELSE [message |-> LatestUserQuery(state), reply |-> answer],
                    cache)

RetrieveContext ==
    \E o \in RetrieveOutcomes(LatestUserQuery(state)) :
        LET calls == retrieve_calls(state, o, cache)
        IN  StepCalling("retrieve_context", retrieve_context(state, o),
                        /\ UserMessages(state.messages) # <<>>
                        /\ \E i \in 1..Len(decompose_query(LatestUserQuery(state), o.decomposition)) :
                               ~o.rag[i].ok,
                        [requests |-> calls.requests, failed |-> calls.failed],
                        calls.cache)

ExecuteTools ==
    \E o \in ToolOutcomes :
        Step("execute_tools", execute_tools(state, o),
             /\ UserMessages(state.messages) # <<>>
             /\ ToolFor(Get(state, "intent", NoneVal)) # ""
             /\ ~o.ok)

ReasoningStep ==
    \E o \in ReasoningOutcomes :
        Step("reasoning_step", reasoning_step(state, o),
             /\ Get(state, "intent", "research_query") \in complex_intents
             /\ UserMessages(state.messages) # <<>>
             /\ ~o.ok)

GenerateResponse ==
    \E o \in CompletionOutcomes,
       extractions \in ExtractionsFor(Get(state, "context", <<>>)) :
        StepCalling("generate_response", generate_response(state, o), ~o.ok,
                    [context |-> prompt_context(state, extractions),
                     failed |-> IF \E i \in 1..Len(extractions) : ~extractions[i].ok
                                THEN {"compression"} ELSE {}],
                    cache)

ValidateResponse ==
    \E o \in ValidationOutcomes :
        Step("validate_response", validate_response(state, o),
             /\ AssistantMessages(state.messages) # <<>>
             /\ (~o.ok \/ o.parsed # "dict" \/ ~o.verdict.issues_ok))

HandleError ==
    Step("handle_error", handle_error(state), FALSE)

Next ==
    \/ ClassifyIntent
    \/ RetrieveContext
    \/ ExecuteTools
    \/ ReasoningStep
    \/ GenerateResponse
    \/ ValidateResponse
    \/ HandleError

Spec == Init /\ [][Next]_vars

-----------------------------------------------------------------------------
(* One node function and its edge, applied to an arbitrary state as a       *)
(* caller of the node functions may pass it                                *)

AnyStates ==
    [messages : {<<>>,
                 <<HumanMessage("What is Xynenyx?")>>,
                 <<HumanMessage("What is Xynenyx?"), AIMessage("Xynenyx is ...")>>},
     user_id : {"user-1"},
     conversation_id : {"conv-1"},
     intent : valid_intents \cup {NoneVal, "funding"},
     context : {<<>>},
     tools_used : {<<>>, <<"rag_search">>},
     requires_human : {FALSE},
     error : {NoneVal, "", "timeout"},
     sources : {<<>>},
     usage : {NoneVal, EmptyDict, TokenDict},
     reasoning : {NoneVal},
     validation : {NoValidation,
                   [kind |-> "dict", corrections_needed |-> "true", issues_ok |-> TRUE],
                   [kind |-> "dict", corrections_needed |-> "false", issues_ok |-> TRUE]},
     validation_retried : BOOLEAN,
     absent : {{}, {"reasoning", "validation", "validation_retried"}, {"error", "usage", "intent"}}]

\* states in which the services of retrieve_context and generate_response
\* have work to do: a multi-part question, and a context over the budget
LongContext ==
    <<Updated(D1, [content |-> TextOfLength(8100)]),
      Updated(D2, [content |-> TextOfLength(8100)])>>

ServiceStates ==
    {[[s EXCEPT !.messages = <<HumanMessage("Compare Acme and Globex funding")>>]
         EXCEPT !.context = LongContext] :
        s \in {s \in AnyStates : /\ s.absent = {}
                                 /\ s.intent \in {"comparison", NoneVal}
                                 /\ s.messages = <<HumanMessage("What is Xynenyx?")>>
                                 /\ s.tools_used = <<>>
                                 /\ s.usage = NoneVal
                                 /\ s.validation = NoValidation
                                 /\ ~s.validation_retried}}

InitAny ==
    /\ \/ state \in AnyStates /\ pc \in Nodes
       \/ state \in ServiceStates /\ pc \in {"retrieve_context", "generate_response"}
    /\ last = "START"
    /\ ran = NoRuns
    /\ start = state
    /\ call_failed = FALSE
    /\ given = NoneVal
    /\ returned = NoneVal
    /\ again = NoneVal
    /\ NoStore
    /\ NoRewriter

NextAny ==
    \/ last = "START" /\ ClassifyIntent
    \/ last = "START" /\ RetrieveContext
    \/ last = "START" /\ ExecuteTools
    \/ last = "START" /\ ReasoningStep
    \/ last = "START" /\ GenerateResponse
    \/ last = "START" /\ ValidateResponse
    \/ last = "START" /\ HandleError

SpecAny == InitAny /\ [][NextAny]_vars

-----------------------------------------------------------------------------
(* The routing functions alone, applied to arbitrary states *)

InitRoute ==
    /\ state \in AnyStates
    /\ pc = "ROUTING"
    /\ last \in Nodes
    /\ ran = NoRuns
    /\ start = state
    /\ call_failed = FALSE
    /\ given = NoneVal
    /\ returned = NoneVal
    /\ again = NoneVal
    /\ NoStore
    /\ NoRewriter

ApplyRoute ==
    /\ pc = "ROUTING"
    /\ pc' = RouteFrom(last, state)
    /\ UNCHANGED <<state, last, ran, start, call_failed, given, returned, again, store_vars, rewriter_vars>>

NextRoute == ApplyRoute

SpecRoute == InitRoute /\ [][NextRoute]_vars

-----------------------------------------------------------------------------
(* The edge function should_handle_error applied to arbitrary states, with  *)
(* a context that is a list or None                                         *)

InitEdge ==
    /\ state \in AnyStates
    /\ pc = "edge"
    /\ last = "START"
    /\ ran = NoRuns
    /\ start = state
    /\ call_failed = FALSE
    /\ given = NoneVal
    /\ returned = NoneVal
    /\ again = NoneVal
    /\ NoStore
    /\ NoRewriter

ShouldHandleError ==
    /\ pc = "edge"
    /\ \E missing \in {{}, {"context"}} :
        /\ given' = [state EXCEPT !.absent = @ \cup missing]
        /\ returned' = should_handle_error(given')
    /\ pc' = "returned"
    /\ UNCHANGED <<state, last, ran, start, call_failed, again, store_vars, rewriter_vars>>

NextEdge == ShouldHandleError

SpecEdge == InitEdge /\ [][NextEdge]_vars

-----------------------------------------------------------------------------
(* The query decomposer applied to a query and to sub-query results as a   *)
(* caller may pass them: app/services/query_decomposer.py                  *)

\* retrieved items: two with the same chunk_id and different content, one
\* identified by "id" only, one with an empty chunk_id and the same id, one
\* with no identifier
EvidenceItems ==
    {[chunk_id |-> "x1", content |-> "Acme raised $10M"],
     [chunk_id |-> "x1", content |-> "Acme raised $10M (update)"],
     [id |-> "x2", content |-> "Globex raised $5M"],
     [chunk_id |-> "", id |-> "x2", content |-> "Globex raised $5M (update)"],
     [content |-> "Unidentified"]}

\* what one retrieval returns: nothing, one item, or two items of which the
\* first is the updated x1 item or the unidentified one
EvidenceLists ==
    {<<>>} \cup {<<a>> : a \in EvidenceItems}
           \cup {<<a, b>> : a \in {[chunk_id |-> "x1", content |-> "Acme raised $10M (update)"],
                                    [content |-> "Unidentified"]},
                            b \in EvidenceItems}

\* citation lists: identifiers that occur among the evidence (x1) and one
\* that does not (x3), the latter twice with different content
CitationLists ==
    {<<[chunk_id |-> "x1", article_url |-> "https://news/acme"],
       [chunk_id |-> "x3", article_url |-> "https://news/initech"]>>,
     <<[chunk_id |-> "x3", article_url |-> "https://news/initech"],
       [chunk_id |-> "x3", article_url |-> "https://news/initech-2"]>>}

\* the sub-query results retrieve_context builds from a retrieval reply
RetrievedSubQueryResults ==
    {[results |-> r, sources |-> SourcesOf(r), count |-> Len(r)] : r \in RagResults}

SubQueryResults ==
    {[results |-> r, sources |-> c, count |-> Len(r)] :
        r \in EvidenceLists, c \in CitationLists}
    \cup RetrievedSubQueryResults

\* the decomposition reply is varied for the calls with at most one
\* sub-query result, the list of sub-query results for a fixed reply
MergeInputs ==
    {[query |-> q, decomposition |-> d, sub_query_results |-> l] :
        q \in RequestMessages, d \in DecomposeOutcomes,
        l \in {<<>>} \cup {<<r>> : r \in SubQueryResults}}
    \cup {[query |-> "Compare Acme and Globex funding",
           decomposition |-> NoDecomposition,
           sub_query_results |-> l] :
              l \in SeqsUpTo(SubQueryResults, MaxSubQueries)}

InitMerge ==
    /\ given \in MergeInputs
    /\ returned = NoneVal
    /\ again = NoneVal
    /\ NoStore
    /\ NoRewriter
    /\ pc = "decompose_query"
    /\ state = NoneVal
    /\ start = NoneVal
    /\ last = "START"
    /\ ran = NoRuns
    /\ call_failed = FALSE

DecomposeQuery ==
    /\ pc = "decompose_query"
    /\ returned' = [sub_queries |-> decompose_query(given.query, given.decomposition),
                    merged |-> NoneVal]
    /\ pc' = "merge_results"
    /\ UNCHANGED <<state, last, ran, start, call_failed, given, again, store_vars, rewriter_vars>>

MergeResults ==
    /\ pc = "merge_results"
    /\ returned' = [returned EXCEPT
                       !.merged = merge_results(given.sub_query_results, given.query)]
    /\ pc' = "merged"
    /\ UNCHANGED <<state, last, ran, start, call_failed, given, again, store_vars, rewriter_vars>>

\* the same sub-query results passed twice over
MergeDoubled ==
    /\ pc = "merged"
    /\ again' = merge_results(given.sub_query_results \o given.sub_query_results,
                              given.query)
    /\ pc' = "merged_doubled"
    /\ UNCHANGED <<state, last, ran, start, call_failed, given, returned, store_vars, rewriter_vars>>

\* the merged output passed back as the only sub-query result
MergeMerged ==
    /\ pc = "merged"
    /\ again' = merge_results(<<[results |-> returned.merged.results,
                                 sources |-> returned.merged.sources,
                                 count |-> returned.merged.count]>>,
                              given.query)
    /\ pc' = "merged_again"
    /\ UNCHANGED <<state, last, ran, start, call_failed, given, returned, store_vars, rewriter_vars>>

NextMerge ==
    \/ DecomposeQuery
    \/ MergeResults
    \/ MergeDoubled
    \/ MergeMerged

SpecMerge == InitMerge /\ [][NextMerge]_vars

-----------------------------------------------------------------------------
(* The context compressor applied to a context as generate_response may    *)
(* pass it: app/services/context_compressor.py. Contents are strings and   *)
(* metadata are mappings, as the retrieval collaborator returns them.      *)

InitCompress ==
    /\ given \in Contexts
    /\ returned = NoneVal
    /\ again = NoneVal
    /\ NoStore
    /\ NoRewriter
    /\ pc = "compress_context"
    /\ state = NoneVal
    /\ start = NoneVal
    /\ last = "START"
    /\ ran = NoRuns
    /\ call_failed = FALSE

CompressContext ==
    /\ pc = "compress_context"
    /\ \E extractions \in ExtractionsFor(given) :
           returned' = compress_context(given, extractions)
    /\ pc' = "compressed"
    /\ UNCHANGED <<state, last, ran, start, call_failed, given, again, store_vars, rewriter_vars>>

NextCompress == CompressContext

SpecCompress == InitCompress /\ [][NextCompress]_vars

-----------------------------------------------------------------------------
(* The checkpoint store used by concurrent callers. Every method makes one *)
(* request to the store, which the store executes atomically, so the calls *)
(* of concurrent callers interleave as whole operations.                   *)

\* the checkpoint, parent_checkpoint_id and metadata arguments of a put: a
\* first checkpoint without parent and metadata, and a later one with both
PutArguments ==
    {[checkpoint |-> "snapshot-1", parent_checkpoint_id |-> NoneVal,
      metadata |-> NoneVal],
     [checkpoint |-> "snapshot-2", parent_checkpoint_id |-> "cp-0",
      metadata |-> "{\"node\": \"classify_intent\"}"]}

StorePcs == {"store", "returned", "raised"}

InitStore ==
    /\ NoStore
    /\ NoRewriter
    /\ given = [op |-> "none", thread_id |-> NoneVal, checkpoint_id |-> NoneVal]
    /\ returned = <<>>
    /\ again = NoneVal
    /\ pc = "store"
    /\ state = NoneVal
    /\ start = NoneVal
    /\ last = "START"
    /\ ran = NoRuns
    /\ call_failed = FALSE

\* one store method completes: its arguments, what it returned, whether
\* the request failed and whether the method raised
Completes(op, thread_id, checkpoint_id, value, request_failed, raised) ==
    /\ pc \in StorePcs
    /\ given' = [op |-> op, thread_id |-> thread_id, checkpoint_id |-> checkpoint_id]
    /\ returned' = value
    /\ call_failed' = request_failed
    /\ pc' = IF raised THEN "raised" ELSE "returned"
    /\ UNCHANGED <<state, last, ran, start, again, rewriter_vars>>

StorePut ==
    \E thread_id \in ThreadIds, checkpoint_id \in CheckpointIds,
       a \in PutArguments, ok \in BOOLEAN :
        LET data == put_data(thread_id, checkpoint_id, a.checkpoint,
                             a.parent_checkpoint_id, a.metadata)
        IN  /\ Completes("put", thread_id, checkpoint_id, <<>>, ~ok, ~ok)
            /\ table' = IF ok THEN upsert(table, data) ELSE table
            /\ latest_put' =
                   IF ok
                   THEN [latest_put EXCEPT ![<<thread_id, checkpoint_id>>] =
                            <<[checkpoint |-> a.checkpoint,
                               parent_checkpoint_id |-> a.parent_checkpoint_id,
                               metadata |-> data.metadata]>>]
                   ELSE latest_put

StoreGet ==
    \E thread_id \in ThreadIds, checkpoint_id \in CheckpointIds \cup {NoneVal},
       ok \in BOOLEAN :
        /\ Completes("get", thread_id, checkpoint_id,
                     IF ok THEN get(table, thread_id, checkpoint_id) ELSE <<>>,
                     ~ok, FALSE)
        /\ UNCHANGED store_vars

StoreList ==
    \E thread_id \in ThreadIds, limit \in {1, 100}, ok \in BOOLEAN :
        /\ Completes("list", thread_id, NoneVal,
                     IF ok THEN list(table, thread_id, limit) ELSE <<>>,
                     ~ok, FALSE)
        /\ UNCHANGED store_vars

StoreDelete ==
    \E thread_id \in ThreadIds, checkpoint_id \in CheckpointIds \cup {NoneVal},
       ok \in BOOLEAN :
        /\ Completes("delete", thread_id, checkpoint_id, <<>>, ~ok, ~ok)
        /\ table' = IF ok THEN delete(table, thread_id, checkpoint_id) ELSE table
        /\ latest_put' =
               IF ok
               THEN [k \in CheckpointKeys |->
                        IF k[1] = thread_id /\ (Truthy(checkpoint_id) => k[2] = checkpoint_id)
                        THEN <<>> ELSE latest_put[k]]
               ELSE latest_put

NextStore ==
    \/ StorePut
    \/ StoreGet
    \/ StoreList
    \/ StoreDelete

SpecStore == InitStore /\ [][NextStore]_vars

-----------------------------------------------------------------------------
(* The query rewriter shared by all turns: app/services/query_rewriter.py.  *)
(* The event loop runs a call without interruption up to its await of the   *)
(* model and again from the model's answer to the return, so concurrent     *)
(* calls interleave at the await.                                           *)

InitRewrite ==
    /\ NoStore
    /\ NoRewriter
    /\ given = NoneVal
    /\ returned = NoneVal
    /\ again = NoneVal
    /\ pc = "rewriter"
    /\ state = NoneVal
    /\ start = NoneVal
    /\ last = "START"
    /\ ran = NoRuns
    /\ call_failed = FALSE

\* rewrite_query up to the cache check: a hit returns the cached list, a
\* miss awaits the model
RewriteQuery ==
    \E pair \in RewritePairs :
        LET key == cache_key(pair[1], pair[2])
            call == [query |-> pair[1], intent |-> pair[2], cleared |-> FALSE]
        IN  /\ Len(rewrites) < MaxCalls
            /\ rewrites' = Append(rewrites,
                   IF CacheIndex(cache, key) # {}
                   THEN LET entry == cache[CHOOSE i \in CacheIndex(cache, key) : TRUE]
                        IN  Updated(call, [at |-> "returned", model_called |-> FALSE,
                                           cached |-> FALSE, queries |-> entry.queries,
                                           made_for |-> entry.pair])
                   ELSE Updated(call, [at |-> "await", model_called |-> TRUE,
                                       cached |-> FALSE, queries |-> <<>>,
                                       made_for |-> pair]))
            /\ UNCHANGED <<cache, state, pc, last, ran, start, call_failed, given,
                           returned, again, store_vars>>

\* rewrite_query of call c from the model's answer to the return
Answered(c) ==
    /\ rewrites[c].at = "await"
    /\ \E answer \in RewriteAnswers(rewrites[c].query) :
        LET call == rewrites[c]
            made == rewritten(call.query, answer)
        IN  /\ rewrites' = [rewrites EXCEPT ![c] =
                   Updated(call, [at |-> "returned", cached |-> ~made.raised,
                                  queries |-> IF made.raised THEN <<call.query>>
                                              ELSE made.queries])]
            /\ cache' = IF made.raised THEN cache
                        ELSE CacheWritten(cache, cache_key(call.query, call.intent),
                                          made.queries, <<call.query, call.intent>>)
    /\ UNCHANGED <<state, pc, last, ran, start, call_failed, given, returned,
                   again, store_vars>>

RewriteQueryAnswered == \E c \in 1..Len(rewrites) : Answered(c)

\* clear_cache; the calls that returned before it are marked
ClearCache ==
    /\ cache # <<>>
    /\ cache' = <<>>
    /\ rewrites' = [c \in 1..Len(rewrites) |->
                       IF rewrites[c].at = "returned"
                       THEN Updated(rewrites[c], [cleared |-> TRUE])
                       ELSE rewrites[c]]
    /\ UNCHANGED <<state, pc, last, ran, start, call_failed, given, returned,
                   again, store_vars>>

NextRewrite ==
    \/ RewriteQuery
    \/ RewriteQueryAnswered
    \/ ClearCache

SpecRewrite == InitRewrite /\ [][NextRewrite]_vars

-----------------------------------------------------------------------------
(* Properties *)

Intent == Get(state, "intent", NoneVal)
Usage == Get(state, "usage", NoneVal)
Retried == Get(state, "validation_retried", FALSE)
RetrievalIntents == {"research_query", "temporal_query", "entity_research"}

\* C1: whenever one of the six working nodes completes with a non-empty
\* error, the node executed next is handle_error, whatever intent,
\* validation and validation_retried hold.
C1_ErrorForcesHandleError ==
    (last \in Nodes \ {"handle_error"} /\ HasError(state)) => pc = "handle_error"

C1_Witness ==
    /\ last = "generate_response"
    /\ state.error = "Failed to generate response: timeout"
    /\ state.validation_retried
    /\ pc = "handle_error"

\* C2: the first corrections_needed verdict of a turn (validation_retried
\* still false) sends the turn back to generate_response and sets
\* validation_retried; a second such verdict ends the turn.
C2_FirstCorrectionRetries ==
    (/\ last = "validate_response"
     /\ ~HasError(state)
     /\ "validation" \notin state.absent
     /\ CorrectionsNeeded(state.validation))
    => /\ Retried
       /\ ran["validate_response"] = 1 => pc = "generate_response"
       /\ ran["validate_response"] = 2 => pc = "END"

\* C3: no node resets validation_retried: once true it stays true, so it
\* changes from false to true at most once, also when validate_response
\* runs on a state in which it is already true.
C3_RetriedNeverReset ==
    [][Retried => Get(state', "validation_retried", FALSE)]_vars

C3_Witness ==
    /\ last = "validate_response"
    /\ Get(start, "validation_retried", FALSE)
    /\ start.validation.corrections_needed = "true"
    /\ state.validation.corrections_needed = "false"
    /\ Retried

\* C4: a turn stops only at END, classify_intent, retrieve_context,
\* execute_tools, reasoning_step and handle_error run at most once and
\* generate_response and validate_response at most twice.
C4_TurnEndsAtEnd ==
    /\ pc \notin Nodes => pc = "END"
    /\ \A n \in Nodes \ {"generate_response", "validate_response"} : ran[n] <= 1
    /\ ran["generate_response"] <= 2
    /\ ran["validate_response"] <= 2

\* C5: with no error, the node after classify_intent is retrieve_context
\* exactly when intent is research_query, temporal_query or entity_research
\* and execute_tools for every other intent value.
C5_ClassifyRouting ==
    (last = "classify_intent" /\ pc # "ROUTING" /\ ~HasError(state))
    => /\ pc = "retrieve_context" <=> Intent \in RetrievalIntents
       /\ Intent \notin RetrievalIntents => pc = "execute_tools"

C5_Witness ==
    /\ last = "classify_intent"
    /\ ~HasError(state)
    /\ Intent = "comparison"
    /\ pc = "execute_tools"

\* C6 as stated: an intent outside the recognized intents is routed after
\* classify_intent to retrieve_context, without raising.
C6_UnrecognizedRoutesToRetrieve ==
    (/\ last = "classify_intent" /\ pc # "ROUTING" /\ ~HasError(state)
     /\ Intent \notin valid_intents)
    => pc = "retrieve_context"

\* C6 amended: an intent outside the recognized intents is routed after
\* classify_intent to execute_tools, without raising.
C6_UnrecognizedRoutesToTools ==
    (/\ last = "classify_intent" /\ pc # "ROUTING" /\ ~HasError(state)
     /\ Intent \notin valid_intents)
    => pc = "execute_tools"

C6_Witness ==
    /\ last = "classify_intent"
    /\ ~HasError(state)
    /\ Intent = "funding"
    /\ pc = "execute_tools"

\* C7: in a turn started without error, once the node after classify_intent
\* has run, exactly one of retrieve_context and execute_tools has executed,
\* exactly once, and it is retrieve_context exactly when the intent set by
\* classify_intent is a retrieval intent; before that neither has run.
C7_OneRetrievalPath ==
    LET r == ran["retrieve_context"]
        t == ran["execute_tools"]
    IN  IF last \in {"START", "classify_intent"}
        THEN r = 0 /\ t = 0
        ELSE /\ r + t = 1
             /\ r = 1 <=> Intent \in RetrievalIntents

C7_Witness ==
    /\ pc = "END"
    /\ ran["execute_tools"] = 1
    /\ ran["retrieve_context"] = 0
    /\ Intent = "trend_analysis"

\* C8: with no error, after retrieve_context and after execute_tools the
\* next node is reasoning_step exactly when intent is trend_analysis or
\* comparison and generate_response otherwise; after reasoning_step it is
\* generate_response; after generate_response it is validate_response.
C8_NormalEdges ==
    ~HasError(state) =>
        /\ last \in {"retrieve_context", "execute_tools"} =>
               /\ pc = "reasoning_step" <=> Intent \in {"trend_analysis", "comparison"}
               /\ Intent \notin {"trend_analysis", "comparison"} => pc = "generate_response"
        /\ last = "reasoning_step" => pc = "generate_response"
        /\ last = "generate_response" => pc = "validate_response"

C8_Witness ==
    /\ last = "retrieve_context"
    /\ ~HasError(state)
    /\ Intent = "comparison"
    /\ state.context = <<D1>>
    /\ pc = "reasoning_step"

\* C9: handle_error appends exactly one assistant message, whose content
\* contains the error text when error held a text, sets error to None,
\* leaves usage a mapping and is followed by END.
C9_HandleError ==
    last = "handle_error" =>
        /\ Len(state.messages) = Len(start.messages) + 1
        /\ SubSeq(state.messages, 1, Len(start.messages)) = start.messages
        /\ state.messages[Len(state.messages)].role = "assistant"
        /\ ("error" \notin start.absent /\ start.error # NoneVal) =>
               Contains(state.messages[Len(state.messages)].content, start.error)
        /\ "error" \notin state.absent
        /\ state.error = NoneVal
        /\ IsMapping(Usage)
        /\ pc = "END"

C9_Witness ==
    /\ last = "handle_error"
    /\ "error" \notin start.absent
    /\ start.error = "timeout"
    /\ Contains(state.messages[Len(state.messages)].content, "timeout")
    /\ pc = "END"

\* C10: once generate_response or handle_error has run, usage is a mapping,
\* and it is a mapping in every state that reaches END.
C10_UsageNeverNone ==
    /\ (ran["generate_response"] > 0 \/ ran["handle_error"] > 0) => IsMapping(Usage)
    /\ pc = "END" => IsMapping(Usage)

C10_Witness ==
    /\ last = "generate_response"
    /\ HasError(state)
    /\ start.usage = NoneVal
    /\ Usage = EmptyDict

\* the value stored under a key and whether the key is present
Entry(s, key) == <<key \in s.absent, IF key \in s.absent THEN NoneVal ELSE s[key]>>

\* C11: when validate_response fails internally (the validator call fails
\* or its verdict cannot be used), error stays unset, validation and
\* validation_retried stay as they were, and the turn goes on to END.
C11_ValidatorFailureEndsTurn ==
    (last = "validate_response" /\ call_failed) =>
        /\ ~HasError(state)
        /\ Entry(state, "validation") = Entry(start, "validation")
        /\ Entry(state, "validation_retried") = Entry(start, "validation_retried")
        /\ pc = "END"

\* C12: reasoning_step never sets error. It leaves the state unchanged when
\* the intent is neither trend_analysis nor comparison and when its model
\* call fails, writes nothing but reasoning otherwise, and is followed by
\* generate_response whenever no error was set before it ran.
C12_ReasoningStepFrame ==
    last = "reasoning_step" =>
        /\ Entry(state, "error") = Entry(start, "error")
        /\ Get(start, "intent", NoneVal) \notin {"trend_analysis", "comparison"} =>
               state = start
        /\ call_failed => state = start
        /\ \/ state = start
           \/ /\ "reasoning" \notin state.absent
              /\ [state EXCEPT !.reasoning = start.reasoning, !.absent = start.absent] = start
        /\ ~HasError(start) => pc = "generate_response"

C12_Witness ==
    /\ last = "reasoning_step"
    /\ Get(start, "intent", NoneVal) = "comparison"
    /\ call_failed
    /\ state = start
    /\ pc = "generate_response"

\* C13: classify_intent never sets error. When the classification call
\* fails or the state has no user message, intent becomes research_query;
\* intent is never None afterwards, and handle_error is the next node only
\* if error was already set before classify_intent ran.
C13_ClassifyNeverFails ==
    last = "classify_intent" =>
        /\ Entry(state, "error") = Entry(start, "error")
        /\ (call_failed \/ UserMessages(start.messages) = <<>>) =>
               Intent = "research_query"
        /\ "intent" \notin state.absent
        /\ Intent # NoneVal
        /\ pc = "handle_error" => HasError(start)

C13_Witness ==
    /\ last = "classify_intent"
    /\ call_failed
    /\ "intent" \in start.absent
    /\ ~HasError(start)
    /\ Intent = "research_query"
    /\ pc = "retrieve_context"

\* C14: after retrieve_context completes without error for a turn with a
\* user message, sources holds exactly one citation per context item, in
\* the same order and with the same chunk_id, on the single-query path and
\* on the decomposed path alike.
C14_SourcesMatchContext ==
    (last = "retrieve_context" /\ ~HasError(state)) =>
        /\ Len(state.sources) = Len(state.context)
        /\ \A i \in 1..Len(state.context) :
               state.sources[i].chunk_id = state.context[i].chunk_id

\* what execute_tools left behind when it invoked exactly the given tool
Invoked(tool) ==
    /\ "context" \notin state.absent
    /\ Len(state.context) = 1
    /\ state.context[1].tool = tool
    /\ "tools_used" \notin state.absent
    /\ state.tools_used = Append(Get(start, "tools_used", <<>>), tool)

\* C15 as stated: every execution of execute_tools that does not fail
\* invokes exactly one capability (comparison: entity comparison,
\* trend_analysis: trend aggregation, every other intent: generic search)
\* and appends exactly that tool's name to tools_used.
C15_EveryOtherIntentSearches ==
    (last = "execute_tools" /\ ~call_failed) =>
        LET intent == Get(start, "intent", NoneVal)
        IN  CASE intent = "comparison" -> Invoked("compare_entities")
              [] intent = "trend_analysis" -> Invoked("analyze_trends")
              [] OTHER -> Invoked("rag_search")

\* C15: an execution of execute_tools that does not fail, on a state with a
\* user message, invokes exactly one capability and appends exactly its
\* name to tools_used when the intent is comparison (entity comparison),
\* trend_analysis (trend aggregation) or one of research_query,
\* temporal_query and entity_research (generic search); for every other
\* intent, and without a user message, it invokes none and appends nothing.
C15_OneToolByIntent ==
    (last = "execute_tools" /\ ~call_failed) =>
        LET intent == Get(start, "intent", NoneVal)
        IN  IF UserMessages(start.messages) = <<>> THEN state = start
            ELSE CASE intent = "comparison" -> Invoked("compare_entities")
                   [] intent = "trend_analysis" -> Invoked("analyze_trends")
                   [] intent \in RetrievalIntents -> Invoked("rag_search")
                   [] OTHER ->
                        /\ Get(state, "tools_used", <<>>) = Get(start, "tools_used", <<>>)
                        /\ Entry(state, "context") = Entry(start, "context")

C15_Witness ==
    /\ last = "execute_tools"
    /\ ~call_failed
    /\ Get(start, "intent", NoneVal) = "trend_analysis"
    /\ start.tools_used = <<"rag_search">>
    /\ state.tools_used = <<"rag_search", "analyze_trends">>
    /\ state.context[1].tool = "analyze_trends"

\* the positions of a list where an identifier occurs for the first time
FirstOccurrences(items) ==
    {i \in 1..Len(items) :
        /\ Truthy(IdOf(items[i]))
        /\ \A j \in 1..(i - 1) : IdOf(items[j]) # IdOf(items[i])}

\* the items of a list at the given positions, in the order of the list
AtPositions(items, positions) ==
    [k \in 1..Cardinality(positions) |->
        items[CHOOSE i \in positions : Cardinality({j \in positions : j <= i}) = k]]

\* the evidence, or the citations, of all sub-query results put end to end
AllGiven(field) == Extend(given.sub_query_results, field)

Merged == pc \in {"merged", "merged_doubled", "merged_again"}

\* C16: merge_results returns, for every distinct chunk_id (or id when
\* chunk_id is absent) among the sub-results' evidence, exactly one item,
\* the first one in sub-query order and then within-sub-query order, in
\* first-occurrence order; count is the number of merged evidence items.
C16_EvidenceFirstOccurrence ==
    Merged =>
        /\ returned.merged.results =
               AtPositions(AllGiven("results"), FirstOccurrences(AllGiven("results")))
        /\ returned.merged.count = Len(returned.merged.results)

C16_Witness ==
    /\ Merged
    /\ Len(given.sub_query_results) = 2
    /\ AllGiven("results") =
           <<[id |-> "x2", content |-> "Globex raised $5M"],
             [chunk_id |-> "x1", content |-> "Acme raised $10M (update)"],
             [chunk_id |-> "x1", content |-> "Acme raised $10M"]>>
    /\ given.sub_query_results[1].count = 1
    /\ returned.merged.results =
           <<[id |-> "x2", content |-> "Globex raised $5M"],
             [chunk_id |-> "x1", content |-> "Acme raised $10M (update)"]>>
    /\ returned.merged.count = 2

\* C17: the merged citations are deduplicated like the evidence: for every
\* distinct chunk_id (or id) among the sub-results' citation lists exactly
\* one citation is returned, the first seen, whichever identifiers occur
\* among the evidence.
C17_CitationsFirstOccurrence ==
    Merged =>
        returned.merged.sources =
            AtPositions(AllGiven("sources"), FirstOccurrences(AllGiven("sources")))

\* C18: merging the sub-query results passed twice over gives the same
\* evidence and citations as merging them once, and so does merging the
\* single sub-result formed from the merged output.
C18_MergeIdempotent ==
    pc \in {"merged_doubled", "merged_again"} =>
        /\ again.results = returned.merged.results
        /\ again.sources = returned.merged.sources

C18_Witness ==
    /\ pc = "merged_doubled"
    /\ Len(given.sub_query_results) = 2
    /\ Len(AllGiven("results")) = 4
    /\ Len(returned.merged.results) = 2
    /\ Len(returned.merged.sources) = 1
    /\ again.results = returned.merged.results
    /\ again.sources = returned.merged.sources
    /\ again.sub_query_count = 4

\* C19: for a query that is not multi-part, decompose_query returns the
\* single element {query, type: single}, and merge_results applied to the
\* one sub-result built from that retrieval returns exactly the
\* retrieval's evidence list and citation list, unchanged and in order.
C19_SingleQueryIdentity ==
    (/\ Merged
     /\ ~is_multi_part(given.query)
     /\ Len(given.sub_query_results) = 1
     /\ given.sub_query_results[1] \in RetrievedSubQueryResults) =>
        /\ returned.sub_queries = <<[query |-> given.query, type |-> "single"]>>
        /\ returned.merged.results = given.sub_query_results[1].results
        /\ returned.merged.sources = given.sub_query_results[1].sources

\* C20: for a context over the size budget with more than 5 items,
\* compress_context returns exactly the first 5 items in their original
\* order, each with content of at most 503 characters (the first 500
\* characters plus an ellipsis when the original is longer than 500, the
\* original content otherwise) and each with metadata compressed = true.
C20_FastTruncation ==
    (/\ pc = "compressed"
     /\ estimated_tokens(given) > 4000
     /\ Len(given) > 5) =>
        /\ Len(returned) = 5
        /\ \A i \in 1..5 :
               /\ Len(returned[i].content) <= 503
               /\ returned[i].content =
                      IF Len(given[i].content) > 500
                      THEN SubSeq(given[i].content, 1, 500) \o "..."
                      ELSE given[i].content
               /\ returned[i].metadata.compressed = TRUE
               /\ returned[i].metadata.title = given[i].metadata.title
               /\ returned[i].chunk_id = given[i].chunk_id
               /\ returned[i].document_id = given[i].document_id

C20_Witness ==
    /\ pc = "compressed"
    /\ Len(given) = 6
    /\ Len(given[1].content) = 501
    /\ Len(given[2].content) = 500
    /\ Len(given[6].content) = 5000
    /\ Len(returned) = 5
    /\ Len(returned[1].content) = 503
    /\ returned[2].content = given[2].content
    /\ Len(returned[5].content) = 503
    /\ returned[5].metadata.compressed = TRUE

OverBudget == estimated_tokens(given) > 4000

\* C21: for every input context compress_context returns no more items
\* than it was given, and whenever the input is over budget every returned
\* item carries metadata compressed = true, on the fast-truncation path,
\* the per-item extraction path, the per-item truncation fallback and the
\* top-level fallback.
C21_NeverMoreAlwaysMarked ==
    pc = "compressed" =>
        /\ Len(returned) <= Len(given)
        /\ OverBudget =>
               \A i \in 1..Len(returned) :
                   /\ "compressed" \in DOMAIN returned[i].metadata
                   /\ returned[i].metadata.compressed = TRUE

C21_Witness ==
    /\ pc = "compressed"
    /\ OverBudget
    /\ Len(given) = 5
    /\ Len(returned) = 5
    /\ "compression_method" \in DOMAIN returned[1].metadata
    /\ returned[1].metadata.compression_method = "fallback_truncation"
    /\ returned[1].metadata.compressed = TRUE

\* C22: for a context over budget with at most 5 items compress_context
\* drops no item: the output has exactly one item per input item, in input
\* order, each either fact-extracted or (when its extraction fails)
\* truncated to 300 characters, and each marked compressed = true.
C22_NoItemDropped ==
    (pc = "compressed" /\ OverBudget /\ Len(given) <= 5) =>
        /\ Len(returned) = Len(given)
        /\ \A i \in 1..Len(returned) :
               /\ returned[i].metadata.compressed = TRUE
               /\ \/ "extracted_company" \in DOMAIN returned[i].metadata
                  \/ returned[i].content = Prefix(given[i].content, 300) \o "..."

\* the number of nodes completed in the turn
Completed ==
    ran["classify_intent"] + ran["retrieve_context"] + ran["execute_tools"]
    + ran["reasoning_step"] + ran["generate_response"] + ran["validate_response"]
    + ran["handle_error"]

\* C23: when checkpointing is enabled in the configuration, the executor
\* has written exactly one checkpoint per completed node of the turn, each
\* with a fresh checkpoint_id and with the previous node's id as
\* parent_checkpoint_id, so that the checkpoints form one chain.
C23_OneCheckpointPerNode ==
    checkpoint_enabled =>
        LET written == Selected(table, start.conversation_id, NoneVal)
        IN  /\ Len(written) = Completed
            /\ \A i, j \in 1..Len(written) :
                   i # j => written[i].checkpoint_id # written[j].checkpoint_id
            /\ \A i \in 2..Len(written) :
                   written[i].parent_checkpoint_id = written[i - 1].checkpoint_id

C25_GetReturnsLatestPut ==
    /\ \A i, j \in 1..Len(table) : KeyOf(table[i]) = KeyOf(table[j]) => i = j
    /\ (given.op = "get" /\ ~call_failed /\ given.checkpoint_id # NoneVal) =>
           LET put == latest_put[<<given.thread_id, given.checkpoint_id>>]
           IN  IF put = <<>> THEN returned = <<>>
               ELSE returned = <<[checkpoint_id |-> given.checkpoint_id,
                                  parent_checkpoint_id |-> put[1].parent_checkpoint_id,
                                  checkpoint |-> put[1].checkpoint,
                                  metadata |-> put[1].metadata]>>

\* the rows of one thread, in the order of their creation
RowsOf(rows, thread_id) == Selected(rows, thread_id, NoneVal)

\* C26: operations on different threads do not interfere, in whatever order
\* puts and deletes are interleaved: an operation on one thread leaves every
\* row of every other thread unchanged, so that get and list on the other
\* thread return what they returned before; a delete without checkpoint_id
\* removes all and only the rows of its thread, a delete with one removes
\* only that row.
C26_ThreadsDoNotInterfere ==
    [][/\ \A other \in ThreadIds \ {given'.thread_id} :
            /\ RowsOf(table', other) = RowsOf(table, other)
            /\ list(table', other, 100) = list(table, other, 100)
            /\ \A checkpoint_id \in CheckpointIds \cup {NoneVal} :
                   get(table', other, checkpoint_id) = get(table, other, checkpoint_id)
       /\ (given'.op = "delete" /\ ~call_failed') =>
            LET remains(row) == /\ given'.checkpoint_id # NoneVal
                                /\ row.checkpoint_id # given'.checkpoint_id
            IN  RowsOf(table', given'.thread_id) =
                    SelectSeq(RowsOf(table, given'.thread_id), remains)]_vars

\* a delete of a whole thread has completed while the other thread has rows
C26_Witness ==
    /\ given.op = "delete"
    /\ given.checkpoint_id = NoneVal
    /\ pc = "returned"
    /\ RowsOf(table, given.thread_id) = <<>>
    /\ \E other \in ThreadIds \ {given.thread_id} : Len(RowsOf(table, other)) = 2

\* the calls of the rewriter that returned a list the model made for them
\* and that no clear_cache has followed
Successful(calls) ==
    {c \in 1..Len(calls) : calls[c].at = "returned" /\ calls[c].cached /\ ~calls[c].cleared}

\* C27: the rewriter memoizes by (query, intent): a call whose pair equals
\* that of an earlier successful call returns the earlier result without a
\* model call, and a call never returns a result cached for a different
\* pair.
C27_MemoizedByPair ==
    [][Len(rewrites') = Len(rewrites) + 1 =>
        LET call == rewrites'[Len(rewrites')]
            earlier == {c \in Successful(rewrites) :
                            /\ rewrites[c].query = call.query
                            /\ rewrites[c].intent = call.intent}
        IN  /\ earlier # {} =>
                  /\ call.at = "returned"
                  /\ ~call.model_called
                  /\ \E c \in earlier : call.queries = rewrites[c].queries
            /\ call.at = "returned" => call.made_for = <<call.query, call.intent>>]_vars

\* C28: under any interleaving of rewrite_query calls on the shared cache,
\* with the same or different keys and with clear_cache in between, every
\* call completes without waiting on another turn (a call that awaits the
\* model can always take the model's answer), a missing entry only causes
\* the list to be computed again, and each call returns a non-empty list
\* of variations made for its own query.
C28_CallsCompleteForOwnQuery ==
    \A c \in 1..Len(rewrites) :
        /\ rewrites[c].at = "await" => ENABLED Answered(c)
        /\ rewrites[c].at = "returned" =>
              /\ rewrites[c].queries # <<>>
              /\ rewrites[c].made_for[1] = rewrites[c].query

\* the filters of a request to the retrieval collaborator are all empty
NoFilters(request) ==
    /\ request.date_filter = NoneVal
    /\ request.company_filter = NoneVal
    /\ request.investor_filter = NoneVal
    /\ request.sector_filter = NoneVal

\* C29: a failure of the model call inside query decomposition, query
\* rewriting, filter extraction or context compression never propagates: it
\* does not set the state's error and does not abort retrieve_context or
\* generate_response, and the node goes on with the degraded value: the
\* single original query for a failed decomposition, the original query
\* alone for a failed rewriting, empty filters for a failed extraction and
\* a truncated context for a failed compression.
C29_ServiceFailuresDegrade ==
    [][/\ (pc = "retrieve_context" /\ last' = "retrieve_context"
            /\ given'.failed # {} /\ ~call_failed') =>
              /\ Entry(state', "error") = Entry(state, "error")
              /\ "context" \notin state'.absent
              /\ \A i \in 1..Len(state'.context) : state'.context[i] \in {D1, D2}
              /\ "extraction" \in given'.failed =>
                    \A i \in 1..Len(given'.requests) : NoFilters(given'.requests[i])
              /\ "decomposition" \in given'.failed =>
                    /\ Len(given'.requests) = 1
                    /\ given'.requests[1].query = LatestUserQuery(state)
              /\ \A i \in 1..Len(given'.requests) :
                    given'.requests[i].rewriting_failed =>
                        /\ ~given'.requests[i].use_multi_query
                        /\ given'.requests[i].query_variations = <<>>
       /\ (pc = "generate_response" /\ last' = "generate_response"
            /\ given'.failed # {} /\ ~call_failed') =>
              /\ Entry(state', "error") = Entry(state, "error")
              /\ Len(AssistantMessages(state'.messages))
                    = Len(AssistantMessages(state.messages)) + 1
              /\ \A i \in 1..Len(given'.context) :
                    given'.context[i].metadata.compressed
              /\ \E i \in 1..Len(given'.context) :
                    /\ "compression_method" \in DOMAIN given'.context[i].metadata
                    /\ given'.context[i].metadata.compression_method = "truncation"
                    /\ given'.context[i].content
                          = Prefix(state.context[i].content, 300) \o "..."]_vars

\* retrieve_context has gone on to write a context after its extraction,
\* decomposition and rewriting calls all failed
C29_Witness ==
    /\ last = "retrieve_context"
    /\ given.failed = {"extraction", "decomposition", "rewriting"}
    /\ NoFilters(given.requests[1])
    /\ ~HasError(state)
    /\ state.context # <<>>

\* C30: should_handle_error returns "handle_error" whenever the error is
\* set, and "END" when the error is None and the state has an empty context
\* list, no tools used and no assistant message.
C30_HandleErrorOrEnd ==
    pc = "returned" =>
        /\ HasError(given) => returned = "handle_error"
        /\ (/\ Get(given, "error", NoneVal) = NoneVal
            /\ "context" \notin given.absent
            /\ given.context = <<>>
            /\ given.tools_used = <<>>
            /\ AssistantMessages(given.messages) = <<>>) => returned = "END"

\* C31: when retrieve_context or execute_tools fails (the retrieval call or
\* the tool invocation raises), the node sets error to a non-empty message
\* and leaves context, sources, tools_used, messages and intent as they were
\* before the node ran; the failure is not raised to the executor, which
\* takes the node's edge.
C31_FailureOnlySetsError ==
    (last \in {"retrieve_context", "execute_tools"} /\ call_failed) =>
        /\ HasError(state)
        /\ \A key \in {"context", "sources", "tools_used", "messages", "intent"} :
              Entry(state, key) = Entry(start, key)
        /\ pc = "handle_error"

C31_Witness ==
    /\ last = "execute_tools"
    /\ call_failed
    /\ ~HasError(start)
    /\ state.error = "Tool execution failed: "
    /\ start.tools_used = <<"rag_search">>
    /\ state.tools_used = start.tools_used

\* the characters an item adds to the estimate as the claim counts them:
\* the length of its content, 0 without a content entry
RECURSIVE ContentChars(_, _)
ContentChars(context, n) ==
    IF n = 0 THEN 0
    ELSE ContentChars(context, n - 1)
         + (IF "content" \in DOMAIN context[n] THEN Len(context[n].content) ELSE 0)

\* C32: compress_context returns its input list unchanged (same items in
\* the same order, none marked compressed) exactly when the estimated cost,
\* the sum of the items' content lengths integer-divided by 4, is at most
\* 4000; an item without a content entry adds 0 to the sum.
C32_UnchangedIffWithinBudget ==
    pc = "compressed" =>
        (returned = given <=> ContentChars(given, Len(given)) \div 4 <= 4000)

C32_Witness ==
    /\ pc = "compressed"
    /\ Len(given) = 5
    /\ ContentChars(given, 5) = 16001
    /\ returned = given

C32_WitnessToolResult ==
    /\ pc = "compressed"
    /\ Len(given) = 5
    /\ given[5] = ToolResult
    /\ ContentChars(given, 5) = 15500
    /\ returned = given

C32_WitnessOver ==
    /\ pc = "compressed"
    /\ ContentChars(given, Len(given)) = 16005
    /\ returned # given
    /\ \A i \in 1..Len(returned) : returned[i].metadata.compressed = TRUE

\* C33: every list rewrite_query returns, on success, on the parse
\* fallback, on failure and on a cache hit, contains the query it was called
\* with and has between 1 and 5 entries, whatever list the model answered
\* with, lists of more than 5 entries that hold the query at any position
\* included.
C33_OriginalAmongOneToFive ==
    \A c \in 1..Len(rewrites) :
        rewrites[c].at = "returned" =>
            /\ Len(rewrites[c].queries) \in 1..5
            /\ \E i \in 1..Len(rewrites[c].queries) :
                   rewrites[c].queries[i] = rewrites[c].query

\* C34: during a turn no node changes user_id or conversation_id; intent is
\* written only by classify_intent, so once classify_intent has run intent
\* has the same value in every later state of the turn.
C34_IdentityAndIntentKept ==
    [][/\ Entry(state', "user_id") = Entry(state, "user_id")
       /\ Entry(state', "conversation_id") = Entry(state, "conversation_id")
       /\ last' # "classify_intent" =>
              Entry(state', "intent") = Entry(state, "intent")]_vars

C34_Witness ==
    /\ last = "validate_response"
    /\ ran["classify_intent"] = 1
    /\ ran["retrieve_context"] = 1
    /\ ran["generate_response"] = 1
    /\ Get(state, "intent", NoneVal) = "temporal_query"
    /\ Get(start, "intent", NoneVal) = NoneVal
    /\ state.user_id = start.user_id
    /\ state.conversation_id = start.conversation_id

\* C35: in every state of a turn that has reached END, error is None: END
\* is entered only from validate_response with error unset, or from
\* handle_error, which clears error.
C35_NoErrorAtEnd ==
    pc = "END" =>
        /\ "error" \notin state.absent
        /\ state.error = NoneVal
        /\ last \in {"validate_response", "handle_error"}

C35_Witness ==
    /\ pc = "END"
    /\ last = "handle_error"
    /\ ran["retrieve_context"] = 1
    /\ ran["generate_response"] = 0
    /\ state.error = NoneVal

C35_WitnessValidated ==
    /\ pc = "END"
    /\ last = "validate_response"
    /\ state.error = NoneVal
    /\ ran["handle_error"] = 0

\* the messages of the turn's state beyond those it started with
Appended ==
    SubSeq(state.messages, Len(start.messages) + 1, Len(state.messages))

\* C36: in every turn that reaches END the messages only grew by appending
\* and exactly one assistant message was appended: the generated reply, and
\* then handle_error did not run, or the apology of handle_error, and then
\* no generate_response succeeded before it. The last message at END is
\* that assistant message.
C36_OneAssistantMessagePerTurn ==
    pc = "END" =>
        /\ Len(state.messages) = Len(start.messages) + 1
        /\ SubSeq(state.messages, 1, Len(start.messages)) = start.messages
        /\ state.messages[Len(state.messages)].role = "assistant"
        /\ \/ /\ last = "validate_response"
              /\ ran["handle_error"] = 0
              /\ ran["generate_response"] >= 1
           \/ /\ last = "handle_error"
              /\ ran["handle_error"] = 1
              /\ StartsWith(Appended[1].content,
                            "I apologize, but I encountered an error while processing your request: ")

C36_Witness ==
    /\ pc = "END"
    /\ last = "handle_error"
    /\ ran["generate_response"] = 1
    /\ Len(start.messages) = 3
    /\ Len(state.messages) = 4
    /\ state.messages[4].role = "assistant"

C36_WitnessReply ==
    /\ pc = "END"
    /\ last = "validate_response"
    /\ ran["generate_response"] = 1
    /\ Len(start.messages) = 3
    /\ Len(state.messages) = 4
    /\ state.messages[4].role = "assistant"

\* C37: in every state of a turn, reasoning is not None only if the intent
\* is trend_analysis or comparison, and reasoning_step does not run in a
\* turn in which retrieve_context ran: in a turn that starts with error
\* unset, reasoning_step runs only after execute_tools.
C37_ReasoningOnlyAfterTools ==
    /\ Get(state, "reasoning", NoneVal) # NoneVal =>
           Get(state, "intent", NoneVal) \in {"trend_analysis", "comparison"}
    /\ ~(ran["reasoning_step"] > 0 /\ ran["retrieve_context"] > 0)
    /\ (ran["reasoning_step"] > 0 \/ pc = "reasoning_step") =>
           ran["execute_tools"] > 0

C37_Witness ==
    /\ last = "reasoning_step"
    /\ ~HasError(start)
    /\ ran["execute_tools"] = 1
    /\ ran["retrieve_context"] = 0
    /\ Get(state, "intent", NoneVal) = "trend_analysis"
    /\ Get(state, "reasoning", NoneVal) = "Reasoning: 1. ..."

\* C38: in a turn through the graph execute_tools never invokes the generic
\* search tool: tools_used never holds rag_search and at END it has gained
\* at most one name, compare_entities or analyze_trends. When execute_tools
\* runs with an intent other than comparison and trend_analysis
\* (out_of_scope, or None) it invokes no tool, leaves context and tools_used
\* as they were, sets no error, and the turn goes on to generate_response.
C38_NoSearchFromExecuteTools ==
    /\ \A i \in 1..Len(state.tools_used) : state.tools_used[i] # "rag_search"
    /\ pc = "END" =>
           \E gained \in {<<>>, <<"compare_entities">>, <<"analyze_trends">>} :
               state.tools_used = start.tools_used \o gained
    /\ (/\ last = "execute_tools"
        /\ Get(state, "intent", NoneVal) \notin {"comparison", "trend_analysis"}) =>
           /\ Get(state, "intent", NoneVal) \in {"out_of_scope", NoneVal}
           /\ ~call_failed
           /\ Entry(state, "context") = Entry(start, "context")
           /\ Entry(state, "tools_used") = Entry(start, "tools_used")
           /\ ~HasError(state)
           /\ pc = "generate_response"

C38_Witness ==
    /\ last = "execute_tools"
    /\ Get(state, "intent", NoneVal) = "out_of_scope"
    /\ state.tools_used = <<>>
    /\ state.context = <<>>
    /\ pc = "generate_response"

C38_WitnessTool ==
    /\ pc = "END"
    /\ last = "validate_response"
    /\ state.tools_used = <<"compare_entities">>

\* execute_tools on any state whose intent names no tool
C38_NoToolForOtherIntents ==
    (/\ last = "execute_tools"
     /\ Get(start, "intent", NoneVal) \in {"out_of_scope", NoneVal}) =>
        /\ ~call_failed
        /\ Entry(state, "context") = Entry(start, "context")
        /\ Get(state, "tools_used", <<>>) = Get(start, "tools_used", <<>>)
        /\ Entry(state, "error") = Entry(start, "error")
        /\ ~HasError(start) => pc = "generate_response"

\* the identifier of an evidence item as the claim names it: chunk_id, or
\* id when chunk_id is empty or missing; "" when the item has neither
Identifier(item) ==
    IF "chunk_id" \in DOMAIN item /\ item.chunk_id \notin {"", NoneVal} THEN item.chunk_id
    ELSE IF "id" \in DOMAIN item /\ item.id \notin {"", NoneVal} THEN item.id
    ELSE ""

\* C39: every evidence item merge_results returns has a non-empty
\* identifier (chunk_id, or id when chunk_id is empty or missing) and no two
\* returned items share an identifier; an input item with neither chunk_id
\* nor id is not in the merged output, even when it duplicates nothing.
C39_MergedEvidenceIdentified ==
    Merged =>
        LET results == returned.merged.results
        IN  /\ \A i \in 1..Len(results) : Identifier(results[i]) # ""
            /\ \A i, j \in 1..Len(results) :
                   Identifier(results[i]) = Identifier(results[j]) => i = j
            /\ \A i \in 1..Len(AllGiven("results")) :
                   Identifier(AllGiven("results")[i]) = "" =>
                       \A j \in 1..Len(results) : results[j] # AllGiven("results")[i]

C39_Witness ==
    /\ Merged
    /\ AllGiven("results") =
           <<[content |-> "Unidentified"],
             [chunk_id |-> "", id |-> "x2", content |-> "Globex raised $5M (update)"],
             [id |-> "x2", content |-> "Globex raised $5M"]>>
    /\ returned.merged.results =
           <<[chunk_id |-> "", id |-> "x2", content |-> "Globex raised $5M (update)"]>>

\* C40: once classify_intent has run through the model-serving client, the
\* intent is one of research_query, comparison, trend_analysis,
\* temporal_query, entity_research and out_of_scope in every state of the
\* turn; an answer of the model that is none of the six is replaced by the
\* fallback research_query where the classification is made.
C40_IntentAmongTheSix ==
    /\ ran["classify_intent"] > 0 =>
           Get(state, "intent", NoneVal) \in
               {"research_query", "comparison", "trend_analysis",
                "temporal_query", "entity_research", "out_of_scope"}
    /\ last = "classify_intent" =>
           LET reply == given.reply
           IN  /\ reply.content \in {"funding", "", "The intent is comparison"} =>
                      state.intent = "research_query"
               /\ reply.content \in {"comparison", " Comparison\n"} /\ reply.ok =>
                      state.intent = "comparison"

C40_Witness ==
    /\ last = "classify_intent"
    /\ given.reply.ok
    /\ given.reply.content = "The intent is comparison"
    /\ state.intent = "research_query"
    /\ pc = "retrieve_context"

====
